---- MODULE Spec2Model ----
(***************************************************************************)
(* NutriCare backend (src/backend/app.py, src/backend/nutrition_database.py)*)
(* as a state machine.  Every request handler and helper is synchronous:   *)
(* an action takes the handler's input, runs the whole handler and stores  *)
(* what it returned.  SpecConcurrent alone runs handlers on several worker *)
(* threads and interleaves them one loop iteration at a time.              *)
(*                                                                         *)
(* Conventions                                                             *)
(*  - a Python str is a tuple of one-character strings, so that strip()    *)
(*    and lower() are computed and not assumed;                            *)
(*  - a Python dict is a function whose domain is its key set;             *)
(*  - a Python float is an exact rational <<numerator, denominator>>;      *)
(*    round(x, k) is the integer x * 10^k rounded half to even, i.e. a     *)
(*    reported value v with k decimals is stored as v * 10^k.  Binary      *)
(*    floating point error (1 ulp) is not modelled.                        *)
(***************************************************************************)
EXTENDS Integers, Sequences, FiniteSets, TLC

(***************************************************************************)
(* Bounds of the model                                                     *)
(***************************************************************************)
\* largest width * height of an image, and largest number of elements of a
\* mask array (a two-band mask has two elements per pixel)
MaxPixels == 2
\* largest class id stored in a mask element (ids are 0..MaxClassId)
MaxClassId == 1

(***************************************************************************)
(* Python strings                                                          *)
(***************************************************************************)
UpperAlphabet ==
  <<"A","B","C","D","E","F","G","H","I","J","K","L","M",
    "N","O","P","Q","R","S","T","U","V","W","X","Y","Z">>

LowerAlphabet ==
  <<"a","b","c","d","e","f","g","h","i","j","k","l","m",
    "n","o","p","q","r","s","t","u","v","w","x","y","z">>

Whitespace == {" ", "\t", "\n"}

\* str.lower() on one character
LowerChar(c) ==
  IF \E i \in DOMAIN UpperAlphabet : UpperAlphabet[i] = c
    THEN LowerAlphabet[CHOOSE i \in DOMAIN UpperAlphabet : UpperAlphabet[i] = c]
    ELSE c

\* str.lower()
Lower(s) == [i \in DOMAIN s |-> LowerChar(s[i])]

RECURSIVE LStrip(_)
LStrip(s) ==
  IF s # <<>> /\ Head(s) \in Whitespace THEN LStrip(Tail(s)) ELSE s

RECURSIVE RStrip(_)
RStrip(s) ==
  IF s # <<>> /\ s[Len(s)] \in Whitespace
    THEN RStrip(SubSeq(s, 1, Len(s) - 1))
    ELSE s

\* str.strip()
Strip(s) == RStrip(LStrip(s))

\* str(class_id) for a numpy integer: its decimal digits
Digits == <<"0","1","2","3","4","5","6","7","8","9">>

RECURSIVE ToStr(_)
ToStr(n) ==
  IF n < 10 THEN <<Digits[n + 1]>> ELSE ToStr(n \div 10) \o <<Digits[(n % 10) + 1]>>

\* the string literals of the source
S_background == <<"b","a","c","k","g","r","o","u","n","d">>
S_none == <<"n","o","n","e">>
S_empty == <<>>
S_bhat == <<"b","h","a","t">>

(***************************************************************************)
(* Python numbers                                                          *)
(***************************************************************************)
\* round-half-to-even of n / d, d > 0 (Python 3 round())
RoundHalfEven(n, d) ==
  LET q == n \div d
      r == n % d
  IN  IF 2 * r < d THEN q
      ELSE IF 2 * r > d THEN q + 1
      ELSE IF q % 2 = 0 THEN q ELSE q + 1

Pow10(k) == CASE k = 0 -> 1 [] k = 1 -> 10 [] k = 2 -> 100 [] k = 3 -> 1000

RECURSIVE GCD(_, _)
GCD(a, b) == IF b = 0 THEN a ELSE GCD(b, a % b)

Abs(n) == IF n < 0 THEN -n ELSE n

\* rationals <<n, d>>, d > 0, kept in lowest terms
RNorm(a) ==
  LET g == GCD(Abs(a[1]), a[2])
  IN  IF g = 0 THEN a ELSE <<a[1] \div g, a[2] \div g>>

RMul(a, b) ==
  LET x == RNorm(<<a[1], b[2]>>)
      y == RNorm(<<b[1], a[2]>>)
  IN  <<x[1] * y[1], x[2] * y[2]>>

\* a / b, b > 0
RDiv(a, b) == RMul(a, <<b[2], b[1]>>)
REq(a, b) == a[1] * b[2] = b[1] * a[2]
RInt(n) == <<n, 1>>
\* round(x, k), as the integer round(x * 10^k)
Round(x, k) == RoundHalfEven(x[1] * Pow10(k), x[2])

\* a Python dict with no key
EmptyDict == [k \in {} |-> 0]

\* a dict is truthy when it has a key
DictTruthy(d) == DOMAIN d # {}

(***************************************************************************)
(* The output of the segmentation model (external service)                 *)
(***************************************************************************)
\* PIL pixel modes of a mask image and the number of bands np.array() gives
\* each pixel: "L" is one 8-bit band, "LA" is two
Modes == {"L", "LA"}
Bands(mode) == IF mode = "L" THEN 1 ELSE 2

ClassIds == 0 .. MaxClassId

\* the base64 blob of pred["segmentation_mask"], by what decoding it gives:
\*   "none"       the key is missing or null (None)
\*   "empty"      the empty string
\*   "malformed"  base64.b64decode or Image.open raises
\*   "image"      an image width x height of the given mode; data is the
\*                flattened np.array(mask_image), Bands(mode) elements per pixel
AbsentMask(kind) ==
  [kind |-> kind, mode |-> "L", width |-> 0, height |-> 0, data |-> <<>>]

\* the image sizes of the model: landscape, at most MaxPixels pixels
ImageSizes ==
  { sz \in (1 .. MaxPixels) \X (1 .. MaxPixels) :
      sz[1] >= sz[2] /\ sz[1] * sz[2] <= MaxPixels }

\* the masks of the model: the three that give no image, and every image
\* whose array has at most MaxPixels elements
Masks ==
  { AbsentMask("none"), AbsentMask("empty"), AbsentMask("malformed") }
    \cup UNION { { [kind |-> "image", mode |-> ms[1], width |-> ms[2][1],
                    height |-> ms[2][2], data |-> d] :
                   d \in [1 .. ms[2][1] * ms[2][2] * Bands(ms[1]) -> ClassIds] } :
                 ms \in { x \in Modes \X ImageSizes :
                           x[2][1] * x[2][2] * Bands(x[1]) <= MaxPixels } }

\* labels the segmentation model may put in a class map
S_Background_sp == <<"B","a","c","k","g","r","o","u","n","d"," ">>
S_NONE == <<"N","O","N","E">>
S_blank == <<" ">>
S_sp_Selroti == <<" ","S","e","l","r","o","t","i">>
S_Selroti == <<"S","e","l","r","o","t","i">>

Labels == { S_bhat, S_sp_Selroti, S_Background_sp, S_NONE, S_blank }

\* class-map keys are the stringified class ids, in the order the service
\* emits them (ascending id); a dict keeps that order when iterated
ClassKeySeq == [i \in 1 .. MaxClassId + 1 |-> ToStr(i - 1)]
ClassKeys == { ClassKeySeq[i] : i \in DOMAIN ClassKeySeq }

ClassMaps == UNION { [ks -> Labels] : ks \in SUBSET ClassKeys }

\* dict.keys() / dict.values() in iteration order
RECURSIVE KeysInOrder(_, _)
KeysInOrder(d, i) ==
  IF i > Len(ClassKeySeq) THEN <<>>
  ELSE (IF ClassKeySeq[i] \in DOMAIN d THEN <<ClassKeySeq[i]>> ELSE <<>>)
         \o KeysInOrder(d, i + 1)

DictKeys(d) == KeysInOrder(d, 1)
DictValues(d) == [i \in DOMAIN DictKeys(d) |-> d[DictKeys(d)[i]]]

\* image metadata the service returns next to the mask
ImageInfo(mk) ==
  IF mk.kind = "image" THEN [width |-> mk.width, height |-> mk.height]
  ELSE EmptyDict

\* one segmentation result: the fields read with pred.get(...)
Pred(mk, cm) ==
  [segmentation_mask |-> mk, class_map |-> cm, image |-> ImageInfo(mk)]

\* prediction.json(): the result either sits in predictions[0] or at the
\* root of the document
NestedPrediction(mk, cm) ==
  [predictions |-> <<Pred(mk, cm)>>,
   segmentation_mask |-> AbsentMask("none"), class_map |-> EmptyDict,
   image |-> EmptyDict]

RootPrediction(mk, cm) ==
  [predictions |-> <<>>,
   segmentation_mask |-> mk, class_map |-> cm, image |-> ImageInfo(mk)]

\* the two forms of a prediction document
PredictionForms == {"nested", "root"}

Prediction(form, mk, cm) ==
  IF form = "nested" THEN NestedPrediction(mk, cm) ELSE RootPrediction(mk, cm)

(***************************************************************************)
(* Mask decoding and area calculation                                      *)
(***************************************************************************)
\* bool(segmentation_mask): None and "" are falsy
MaskTruthy(mk) == mk.kind \notin {"none", "empty"}

\* base64.b64decode + Image.open succeed
Decodes(mk) == mk.kind = "image"

\* mask_dimensions
MaskDimensions(mk) ==
  [width |-> mk.width, height |-> mk.height,
   total_pixels |-> mk.width * mk.height]

RECURSIVE SortedSeq(_)
SortedSeq(S) ==
  IF S = {} THEN <<>>
  ELSE LET m == CHOOSE x \in S : \A y \in S : x <= y
       IN  <<m>> \o SortedSeq(S \ {m})

\* as Unique, every class id whether or not it occurs in the array
UniqueOfAllIds(data) == SortedSeq(ClassIds)

\* np.unique(mask_array): the sorted distinct elements of the flattened array
Unique(data) == SortedSeq({ data[i] : i \in DOMAIN data })

\* np.sum(mask_array == class_id): the number of ELEMENTS equal to class_id
CountEqual(data, class_id) ==
  Cardinality({ i \in DOMAIN data : data[i] = class_id })

\* as IsBackgroundOrNone, "none" left out of the list
IsBackgroundOnly(s) == s \in {S_background}

\* label in ["background", "none"]
IsBackgroundOrNone(s) == s \in {S_background, S_none}

\* x in list
InSeq(x, sq) == \E i \in DOMAIN sq : sq[i] = x

\* d[k] = v
DictPut(d, k, v) ==
  [x \in DOMAIN d \cup {k} |-> IF x = k THEN v ELSE d[x]]

\* d1.update(d2)
DictUpdate(d1, d2) ==
  [x \in DOMAIN d1 \cup DOMAIN d2 |-> IF x \in DOMAIN d2 THEN d2[x] ELSE d1[x]]

\* the locals the loop over unique_values assigns
AreaLocals0 ==
  [detected_classes |-> <<>>, class_areas |-> EmptyDict, total_food_area |-> 0]

\* one iteration of "for class_id in unique_values"
AreaStep(acc, class_id, data, class_map, total_pixels) ==
  LET class_key == ToStr(class_id)
  IN  IF class_key \notin DOMAIN class_map THEN acc
      ELSE
        LET class_name == Strip(class_map[class_key])
        IN  IF class_name = S_empty \/ IsBackgroundOrNone(Lower(class_name))
              THEN acc
              ELSE
                LET class_pixels == CountEqual(data, class_id)
                    area_percentage == <<class_pixels * 100, total_pixels>>
                IN  [detected_classes |->
                       IF InSeq(class_name, acc.detected_classes)
                         THEN acc.detected_classes
                         ELSE Append(acc.detected_classes, class_name),
                     class_areas |->
                       DictPut(acc.class_areas, class_name,
                               [pixels |-> class_pixels,
                                percentage |-> Round(area_percentage, 2),
                                class_id |-> class_id]),
                     total_food_area |-> acc.total_food_area + class_pixels]

\* the loop over unique_values, in order
RECURSIVE AreaLoop(_, _, _, _, _)
AreaLoop(acc, ids, data, class_map, total_pixels) ==
  IF ids = <<>> THEN acc
  ELSE AreaLoop(AreaStep(acc, Head(ids), data, class_map, total_pixels),
                Tail(ids), data, class_map, total_pixels)

\* the fallback of process_prediction_result: every class-map label that is
\* not background/none/empty, stripped, in class_map.values() order
FallbackClasses(class_map) ==
  LET kept == SelectSeq(DictValues(class_map),
                        LAMBDA cls : Lower(Strip(cls)) \notin
                                       {S_background, S_none, S_empty})
  IN  [i \in DOMAIN kept |-> Strip(kept[i])]

\* predictions[0] when the predictions array is non-empty, else the root
PredictionFields(prediction) ==
  IF prediction.predictions # <<>>
    THEN prediction.predictions[1]
    ELSE [segmentation_mask |-> prediction.segmentation_mask,
          class_map |-> prediction.class_map,
          image |-> prediction.image]

\* process_prediction_result(prediction).  total_food_percentage is assigned
\* only at the end of the mask branch; when that branch is skipped or its
\* try block raised, building the returned dict raises UnboundLocalError,
\* which the outer except turns into the error dict.
ProcessPredictionResult(prediction) ==
  LET pred == PredictionFields(prediction)
      segmentation_mask == pred.segmentation_mask
      class_map == pred.class_map
      image_info == pred.image
      mask_branch == MaskTruthy(segmentation_mask) /\ DOMAIN class_map # {}
      decoded == mask_branch /\ Decodes(segmentation_mask)
  IN  IF ~decoded
        THEN [detected_classes |-> <<>>,
              total_classes |-> 0,
              error |-> "UnboundLocalError",
              raw_result |-> prediction]
        ELSE
          LET mask_dimensions == MaskDimensions(segmentation_mask)
              mask_array == segmentation_mask.data
              acc == AreaLoop(AreaLocals0, Unique(mask_array), mask_array,
                              class_map, mask_dimensions.total_pixels)
              total_food_percentage ==
                IF mask_dimensions.total_pixels > 0
                  THEN <<acc.total_food_area * 100, mask_dimensions.total_pixels>>
                  ELSE <<0, 1>>
              detected_classes ==
                IF acc.detected_classes = <<>> /\ DOMAIN class_map # {}
                  THEN FallbackClasses(class_map)
                  ELSE acc.detected_classes
          IN  [detected_classes |-> detected_classes,
               total_classes |-> Len(detected_classes),
               class_areas |-> acc.class_areas,
               total_food_area |->
                 [pixels |-> acc.total_food_area,
                  percentage |-> Round(total_food_percentage, 2)],
               mask_info |-> mask_dimensions,
               segmentation_mask |-> segmentation_mask,
               class_map |-> class_map,
               image_info |-> image_info]

(***************************************************************************)
(* Weight estimation from pixel area                                       *)
(***************************************************************************)
\* food_densities of estimate_weight_from_area
food_densities ==
  (<<"b","h","a","t">> :> <<8, 10>>) @@
  (<<"d","a","a","l">> :> <<12, 10>>) @@
  (<<"m","a","s","u">> :> <<15, 10>>) @@
  (<<"m","o","m","o">> :> <<13, 10>>) @@
  (<<"r","o","t","i">> :> <<6, 10>>) @@
  (<<"c","h","o","w","m","e","i","n">> :> <<9, 10>>) @@
  (<<"s","a","m","o","s","a">> :> <<11, 10>>) @@
  (<<"p","a","k","o","d","a">> :> <<10, 10>>) @@
  (<<"g","u","n","d","r","u","k">> :> <<5, 10>>) @@
  (<<"d","h","i","d","o">> :> <<14, 10>>) @@
  (<<"k","h","e","e","r">> :> <<11, 10>>) @@
  (<<"s","e","l","r","o","t","i">> :> <<7, 10>>) @@
  (<<"y","o","m","a","r","i">> :> <<12, 10>>) @@
  (<<"c","h","a","n","a"," ","m","a","s","a","l","a">> :> <<11, 10>>) @@
  (<<"c","h","i","y","a">> :> <<10, 10>>) @@
  (<<"b","u","r","g","e","r">> :> <<12, 10>>)

estimated_image_area_cm2 == 400
estimated_height_cm == <<20, 10>>
average_density == <<10, 10>>
OzPerGram == <<35274, 1000000>>

\* as WeightEntry, the pixel count multiplied by pixels_per_cm2
WeightEntryAreaInverted(class_name, pixels, pixels_per_cm2) ==
  LET area_cm2 == RMul(RInt(pixels), pixels_per_cm2)
  IN  IF class_name \in DOMAIN food_densities
        THEN
          LET estimated_weight_grams ==
                RMul(RMul(area_cm2, food_densities[class_name]),
                     estimated_height_cm)
          IN  [estimated_weight_grams |-> Round(estimated_weight_grams, 1),
               estimated_weight_oz |->
                 Round(RMul(estimated_weight_grams, OzPerGram), 2),
               area_cm2 |-> Round(area_cm2, 2),
               density_used |-> food_densities[class_name],
               confidence |-> "estimated",
               method |-> "area_density_estimation"]
        ELSE
          LET estimated_weight_grams ==
                RMul(RMul(area_cm2, average_density), estimated_height_cm)
          IN  [estimated_weight_grams |-> Round(estimated_weight_grams, 1),
               estimated_weight_oz |->
                 Round(RMul(estimated_weight_grams, OzPerGram), 2),
               area_cm2 |-> Round(area_cm2, 2),
               density_used |-> average_density,
               confidence |-> "low",
               method |-> "area_density_estimation",
               note |-> "Unknown food type - using average density"]

\* one entry of weight_estimates
WeightEntry(class_name, pixels, pixels_per_cm2) ==
  LET area_cm2 == RDiv(RInt(pixels), pixels_per_cm2)
  IN  IF class_name \in DOMAIN food_densities
        THEN
          LET estimated_weight_grams ==
                RMul(RMul(area_cm2, food_densities[class_name]),
                     estimated_height_cm)
          IN  [estimated_weight_grams |-> Round(estimated_weight_grams, 1),
               estimated_weight_oz |->
                 Round(RMul(estimated_weight_grams, OzPerGram), 2),
               area_cm2 |-> Round(area_cm2, 2),
               density_used |-> food_densities[class_name],
               confidence |-> "estimated",
               method |-> "area_density_estimation"]
        ELSE
          LET estimated_weight_grams ==
                RMul(RMul(area_cm2, average_density), estimated_height_cm)
          IN  [estimated_weight_grams |-> Round(estimated_weight_grams, 1),
               estimated_weight_oz |->
                 Round(RMul(estimated_weight_grams, OzPerGram), 2),
               area_cm2 |-> Round(area_cm2, 2),
               density_used |-> average_density,
               confidence |-> "low",
               method |-> "area_density_estimation",
               note |-> "Unknown food type - using average density"]

\* as EstimateWeightFromArea, an estimate only for the foods of the density table
EstimateWeightFromAreaKnownOnly(class_areas, mask_info) ==
  IF /\ DOMAIN mask_info # {}
     /\ "total_pixels" \in DOMAIN mask_info
     /\ mask_info["total_pixels"] # 0
    THEN
      LET pixels_per_cm2 ==
            <<mask_info["total_pixels"], estimated_image_area_cm2>>
      IN  [weight_estimates |->
             [class_name \in DOMAIN class_areas \cap DOMAIN food_densities |->
                WeightEntry(class_name, class_areas[class_name].pixels,
                            pixels_per_cm2)],
           calibration_info |->
             [estimated_image_area_cm2 |-> estimated_image_area_cm2,
              pixels_per_cm2 |-> Round(pixels_per_cm2, 2),
              assumed_thickness_cm |-> <<20, 10>>,
              note |-> "Estimates require calibration with reference objects for accuracy"]]
    ELSE [weight_estimates |-> EmptyDict, error |-> "UnboundLocalError"]

\* as EstimateWeightFromArea, the UnboundLocalError not caught
EstimateWeightFromAreaUncaught(class_areas, mask_info) ==
  IF /\ DOMAIN mask_info # {}
     /\ "total_pixels" \in DOMAIN mask_info
     /\ mask_info["total_pixels"] # 0
    THEN
      LET pixels_per_cm2 ==
            <<mask_info["total_pixels"], estimated_image_area_cm2>>
      IN  [weight_estimates |->
             [class_name \in DOMAIN class_areas |->
                WeightEntry(class_name, class_areas[class_name].pixels,
                            pixels_per_cm2)],
           calibration_info |->
             [estimated_image_area_cm2 |-> estimated_image_area_cm2,
              pixels_per_cm2 |-> Round(pixels_per_cm2, 2),
              assumed_thickness_cm |-> <<20, 10>>,
              note |-> "Estimates require calibration with reference objects for accuracy"]]
    ELSE [raised |-> "UnboundLocalError"]

\* estimate_weight_from_area(class_areas, mask_info).  The locals
\* estimated_image_area_cm2 and pixels_per_cm2 exist only when
\* mask_info["total_pixels"] is truthy; otherwise the return statement
\* raises UnboundLocalError and the except clause answers.
EstimateWeightFromArea(class_areas, mask_info) ==
  IF /\ DOMAIN mask_info # {}
     /\ "total_pixels" \in DOMAIN mask_info
     /\ mask_info["total_pixels"] # 0
    THEN
      LET pixels_per_cm2 ==
            <<mask_info["total_pixels"], estimated_image_area_cm2>>
      IN  [weight_estimates |->
             [class_name \in DOMAIN class_areas |->
                WeightEntry(class_name, class_areas[class_name].pixels,
                            pixels_per_cm2)],
           calibration_info |->
             [estimated_image_area_cm2 |-> estimated_image_area_cm2,
              pixels_per_cm2 |-> Round(pixels_per_cm2, 2),
              assumed_thickness_cm |-> <<20, 10>>,
              note |-> "Estimates require calibration with reference objects for accuracy"]]
    ELSE [weight_estimates |-> EmptyDict, error |-> "UnboundLocalError"]

(***************************************************************************)
(* HTTP handlers of the detection pipeline                                 *)
(***************************************************************************)
\* a Flask response: status code and JSON body
Response(code, body) == [code |-> code, body |-> body]

ErrorBody(message) == [status |-> "error", message |-> message]

\* what the handler makes of a prediction the model returned (lines 216-239)
PredictSuccess(prediction) ==
  LET result == ProcessPredictionResult(prediction)
      with_weights ==
        IF /\ "class_areas" \in DOMAIN result
           /\ "mask_info" \in DOMAIN result
           /\ DictTruthy(result["class_areas"])
           /\ DictTruthy(result["mask_info"])
          THEN DictUpdate(result,
                          EstimateWeightFromArea(result["class_areas"],
                                                 result["mask_info"]))
          ELSE result
  IN  Response(200,
               DictUpdate([status |-> "success",
                           message |-> "Food detection completed successfully"],
                          with_weights))

\* POST /predict.  req.image: "missing" (no JSON or no "image" key),
\* "undecodable" (base64 decoding or the temp file raises) or "ok";
\* req.inference: model.predict "raises" or is "ok" and gives req.prediction
Predict(ready, req) ==
  IF ~ready
    THEN Response(500, ErrorBody("Roboflow model not initialized"))
  ELSE IF req.image = "missing"
    THEN Response(400, ErrorBody("No image data provided"))
  ELSE IF req.image = "undecodable" \/ req.inference = "raises"
    THEN Response(400, ErrorBody("Image processing failed"))
  ELSE PredictSuccess(req.prediction)

\* what has become of the temporary image file when /predict answers (lines
\* 201-214): it is created once the image is decoded and unlinked only after
\* model.predict returned
PredictTempFile(ready, req) ==
  IF ~ready \/ req.image \in {"missing", "undecodable"} THEN "none"
  ELSE IF req.inference = "raises" THEN "left"
  ELSE "deleted"

\* the fallback of direct_predict: as FallbackClasses, without repeats
RECURSIVE DirectFallbackLoop(_, _)
DirectFallbackLoop(detected_classes, values) ==
  IF values = <<>> THEN detected_classes
  ELSE
    LET clean_name == Strip(Head(values))
    IN  DirectFallbackLoop(
          IF /\ clean_name # S_empty
             /\ ~IsBackgroundOrNone(Lower(clean_name))
             /\ ~InSeq(clean_name, detected_classes)
            THEN Append(detected_classes, clean_name)
            ELSE detected_classes,
          Tail(values))

\* the inline processing of a 200 answer of the segmentation service
\* (lines 556-685).  As in process_prediction_result, total_food_percentage
\* is unbound unless the mask branch ran to its end; here the
\* UnboundLocalError reaches the handler's except clause.
DirectPredictSuccess(result) ==
  LET segmentation_mask == result.segmentation_mask
      class_map == result.class_map
      mask_branch == MaskTruthy(segmentation_mask) /\ DictTruthy(class_map)
      decoded == mask_branch /\ Decodes(segmentation_mask)
  IN  IF ~decoded
        THEN Response(500, ErrorBody("Direct API prediction failed: UnboundLocalError"))
        ELSE
          LET mask_dimensions == MaskDimensions(segmentation_mask)
              mask_array == segmentation_mask.data
              acc == AreaLoop(AreaLocals0, Unique(mask_array), mask_array,
                              class_map, mask_dimensions.total_pixels)
              total_food_percentage ==
                IF mask_dimensions.total_pixels > 0
                  THEN <<acc.total_food_area * 100, mask_dimensions.total_pixels>>
                  ELSE <<0, 1>>
              detected_classes ==
                IF acc.detected_classes = <<>> /\ DictTruthy(class_map)
                  THEN DirectFallbackLoop(<<>>, DictValues(class_map))
                  ELSE acc.detected_classes
              weight_data ==
                IF DictTruthy(acc.class_areas) /\ DictTruthy(mask_dimensions)
                  THEN EstimateWeightFromArea(acc.class_areas, mask_dimensions)
                  ELSE EmptyDict
              response_data ==
                [status |-> "success",
                 message |-> "Direct API food detection completed successfully",
                 detected_classes |-> detected_classes,
                 total_classes |-> Len(detected_classes),
                 class_areas |-> acc.class_areas,
                 total_food_area |->
                   [pixels |-> acc.total_food_area,
                    percentage |-> Round(total_food_percentage, 2)],
                 mask_info |-> mask_dimensions,
                 segmentation_mask |-> segmentation_mask,
                 class_map |-> class_map,
                 image_info |-> result.image]
          IN  Response(200, DictUpdate(response_data, weight_data))

\* POST /direct-predict.  req.image: "missing" or "ok"; req.upstream: the
\* call to the segmentation service "raises", answers with an "http_error"
\* status, or is "ok" and its JSON document is req.result
DirectPredict(req) ==
  IF req.image = "missing"
    THEN Response(400, ErrorBody("No image data provided"))
  ELSE IF req.upstream = "raises"
    THEN Response(500, ErrorBody("Direct API prediction failed"))
  ELSE IF req.upstream = "http_error"
    THEN Response(500, ErrorBody("Direct API call failed"))
  ELSE DirectPredictSuccess(req.result)

(***************************************************************************)
(* Reference tables (data/*.json, read at start-up)                        *)
(***************************************************************************)
\* d.get(k, default)
DictGet(d, k, default) == IF k \in DOMAIN d THEN d[k] ELSE default

S_Bhat == <<"B","h","a","t">>
S_pizza == <<"p","i","z","z","a">>
\* further food names, as food_densities spells them
FoodNames ==
  [roti |-> <<"r","o","t","i">>,
   momo |-> <<"m","o","m","o">>,
   daal |-> <<"d","a","a","l">>,
   chowmein |-> <<"c","h","o","w","m","e","i","n">>,
   dhido |-> <<"d","h","i","d","o">>,
   selroti |-> <<"s","e","l","r","o","t","i">>]

Shapes == {"rectangular", "cylinder", "sphere", "irregular"}

\* a key that a table entry may lack: its value, or NoNumber / "absent"
NoNumber == <<0, 0>>
Opt(k, v) == IF v = NoNumber \/ v = <<"absent">> THEN EmptyDict ELSE (k :> v)

\* entries of physical_properties.json, with the keys /weight-estimation
\* reads (thickness_cm, shape, density) and the per-food shape_factor
PhysicalProfiles ==
  { (IF sh = "absent" THEN EmptyDict ELSE ("shape" :> sh))
      @@ Opt("thickness_cm", th) @@ Opt("density", de) @@ Opt("shape_factor", sf) :
    sh \in Shapes \cup {"absent"},
    th \in {<<15, 10>>, NoNumber},
    de \in {<<8, 10>>, NoNumber},
    sf \in {<<5, 10>>, NoNumber} }

PhysicalTables ==
  {EmptyDict} \cup { (S_bhat :> props) : props \in PhysicalProfiles }

\* nutrition_database: data["foods"] of nutrition_database.json
FullNutrition ==
  (S_bhat :> [nutrition_per_100g |->
                [calories |-> <<130, 1>>, protein |-> <<27, 10>>,
                 carbs |-> <<28, 1>>, fat |-> <<3, 10>>,
                 fiber |-> <<4, 10>>]])

NutritionTables ==
  { EmptyDict, FullNutrition,
    (S_bhat :> [nutrition_per_100g |-> [calories |-> <<130, 1>>]]) }

\* glycemic_index: data["glycemic_data"] of glycemic_index.json
FullGlycemic == (S_bhat :> [gi_value |-> <<73, 1>>, gi_category |-> "high"])

GlycemicTables == { EmptyDict, FullGlycemic }

\* tables of a deployment with six foods; momo has a glycemic record and no
\* nutrition entry
RiskNutrition ==
  FullNutrition
    @@ (FoodNames.roti :> [nutrition_per_100g |-> [calories |-> <<264, 1>>, carbs |-> <<45, 1>>]])
    @@ (FoodNames.selroti :> [nutrition_per_100g |-> [carbs |-> <<50, 1>>]])
    @@ (FoodNames.chowmein :> [nutrition_per_100g |-> [carbs |-> <<25, 1>>]])
    @@ (FoodNames.dhido :> [nutrition_per_100g |-> [carbs |-> <<30, 1>>]])
    @@ (FoodNames.daal :> [nutrition_per_100g |-> [carbs |-> <<20, 1>>, fiber |-> <<8, 1>>]])

RiskGlycemic ==
  FullGlycemic
    @@ (FoodNames.selroti :> [gi_value |-> <<75, 1>>, gi_category |-> "high"])
    @@ (FoodNames.roti :> [gi_value |-> <<70, 1>>, gi_category |-> "high"])
    @@ (FoodNames.momo :> [gi_value |-> <<69, 1>>, gi_category |-> "medium"])
    @@ (FoodNames.chowmein :> [gi_value |-> <<56, 1>>, gi_category |-> "medium"])
    @@ (FoodNames.dhido :> [gi_value |-> <<55, 1>>, gi_category |-> "low"])
    @@ (FoodNames.daal :> [gi_value |-> <<50, 1>>, gi_category |-> "low"])

\* food_alternatives: the document of food_alternatives.json
AlternativesDocs ==
  { EmptyDict,
    [alternatives |-> (S_bhat :> <<"brown rice">>) @@ (FoodNames.daal :> <<"moong daal">>)] }

\* NutritionDatabase.nutrition_data: the document of nutrition_database.json
\* in data_dir, {} when the file is missing.  chowmein is spelled with the
\* keys app.py reads (protein, carbs), dhido has no glycemic record
DbFoods ==
  (S_bhat :> [nutrition_per_100g |->
                [calories |-> <<130, 1>>, protein_g |-> <<27, 10>>,
                 carbs_g |-> <<28, 1>>, fiber_g |-> <<4, 10>>]])
    @@ (FoodNames.daal :> [nutrition_per_100g |->
                     [calories |-> <<116, 1>>, protein_g |-> <<9, 1>>,
                      carbs_g |-> <<20, 1>>, fiber_g |-> <<8, 1>>]])
    @@ (FoodNames.roti :> [nutrition_per_100g |->
                     [calories |-> <<264, 1>>, protein_g |-> <<9, 1>>,
                      carbs_g |-> <<45, 1>>]])
    @@ (FoodNames.dhido :> [nutrition_per_100g |->
                      [calories |-> <<150, 1>>, protein_g |-> <<3, 1>>,
                       carbs_g |-> <<30, 1>>, fiber_g |-> <<2, 1>>]])
    @@ (FoodNames.chowmein :> [nutrition_per_100g |->
                         [calories |-> <<190, 1>>, protein |-> <<6, 1>>,
                          carbs |-> <<25, 1>>]])

\* NutritionDatabase.gi_data: the document of glycemic_index_database.json
DbGlycemic ==
  (S_bhat :> [gi_value |-> <<73, 1>>, gi_category |-> "high"])
    @@ (FoodNames.daal :> [gi_value |-> <<50, 1>>, gi_category |-> "low"])
    @@ (FoodNames.roti :> [gi_value |-> <<70, 1>>, gi_category |-> "high"])
    @@ (FoodNames.momo :> [gi_value |-> <<69, 1>>, gi_category |-> "medium"])
    @@ (FoodNames.chowmein :> [gi_value |-> <<56, 1>>, gi_category |-> "medium"])

MealRiskScoring ==
  [risk_factors |->
     [total_gi_load |-> [weight |-> <<4, 10>>],
      carb_content |-> [weight |-> <<3, 10>>],
      fiber_content |-> [weight |-> <<-2, 10>>],
      protein_content |-> [weight |-> <<-1, 10>>]],
   risk_levels |->
     << <<"low", [score_range |-> <<"0","-","3">>,
                  message |-> "Low risk", color |-> "#10B981"]>>,
        <<"moderate", [score_range |-> <<"3","-","6",".","5">>,
                       message |-> "Moderate risk"]>>,
        <<"high", [score_range |-> <<"6",".","5","-","1","0","0">>,
                   message |-> "High risk", color |-> "#EF4444"]>> >>]

GiDocs ==
  { EmptyDict,
    [glycemic_index_data |-> DbGlycemic],
    [glycemic_index_data |-> DbGlycemic, meal_risk_scoring |-> MealRiskScoring] }

\* entries of density_database.json read by NutritionDatabase
DensityProfiles ==
  { ("shape" :> sh)
      @@ Opt("density_g_per_cm3", de) @@ Opt("avg_thickness_cm", th)
      @@ Opt("shape_factor", sf) :
    sh \in {"rectangular", "irregular"},
    de \in {<<8, 10>>, NoNumber},
    th \in {<<15, 10>>, NoNumber},
    sf \in {<<5, 10>>, NoNumber} }

\* NutritionDatabase.density_data: the document, {} when the file is missing
DensityTables ==
  { EmptyDict, [density_data |-> EmptyDict] }
    \cup { [density_data |-> (S_bhat :> info)] : info \in DensityProfiles }

(***************************************************************************)
(* Nutrition and glycemic load for a weight                                *)
(***************************************************************************)
Zero == <<0, 1>>
Hundred == <<100, 1>>

\* get_carbohydrates_for_weight(food_name, weight_grams)
GetCarbohydratesForWeight(nutrition_db, food_name, weight_grams) ==
  LET food_data == DictGet(nutrition_db, food_name, EmptyDict)
  IN  IF ~DictTruthy(food_data) THEN Zero
      ELSE
        LET factor == RDiv(weight_grams, Hundred)
        IN  RMul(DictGet(DictGet(food_data, "nutrition_per_100g", EmptyDict),
                         "carbs", Zero),
                 factor)

\* GetNutritionForWeight without the early return for a food that has no
\* entry: the fields of an unknown food come out as zeros
GetNutritionForWeightNoGuard(nutrition_db, food_name, weight_grams) ==
  LET food_data == DictGet(nutrition_db, food_name, EmptyDict)
      factor == RDiv(weight_grams, Hundred)
      nutrition == DictGet(food_data, "nutrition_per_100g", EmptyDict)
  IN  [calories |-> Round(RMul(DictGet(nutrition, "calories", Zero), factor), 1),
       protein |-> Round(RMul(DictGet(nutrition, "protein", Zero), factor), 1),
       carbohydrates |-> Round(RMul(DictGet(nutrition, "carbs", Zero), factor), 1),
       fat |-> Round(RMul(DictGet(nutrition, "fat", Zero), factor), 1),
       fiber |-> Round(RMul(DictGet(nutrition, "fiber", Zero), factor), 1)]

\* GetNutritionForWeight reading the per-100g key "carbohydrates", the
\* spelling the tables do not use
GetNutritionForWeightOldKey(nutrition_db, food_name, weight_grams) ==
  LET food_data == DictGet(nutrition_db, food_name, EmptyDict)
  IN  IF ~DictTruthy(food_data) THEN EmptyDict
      ELSE
        LET factor == RDiv(weight_grams, Hundred)
            nutrition == DictGet(food_data, "nutrition_per_100g", EmptyDict)
        IN  [calories |-> Round(RMul(DictGet(nutrition, "calories", Zero), factor), 1),
             protein |-> Round(RMul(DictGet(nutrition, "protein", Zero), factor), 1),
             carbohydrates |-> Round(RMul(DictGet(nutrition, "carbohydrates", Zero), factor), 1),
             fat |-> Round(RMul(DictGet(nutrition, "fat", Zero), factor), 1),
             fiber |-> Round(RMul(DictGet(nutrition, "fiber", Zero), factor), 1)]

\* get_nutrition_for_weight(food_name, weight_grams)
GetNutritionForWeight(nutrition_db, food_name, weight_grams) ==
  LET food_data == DictGet(nutrition_db, food_name, EmptyDict)
  IN  IF ~DictTruthy(food_data) THEN EmptyDict
      ELSE
        LET factor == RDiv(weight_grams, Hundred)
            nutrition == DictGet(food_data, "nutrition_per_100g", EmptyDict)
        IN  [calories |-> Round(RMul(DictGet(nutrition, "calories", Zero), factor), 1),
             protein |-> Round(RMul(DictGet(nutrition, "protein", Zero), factor), 1),
             carbohydrates |-> Round(RMul(DictGet(nutrition, "carbs", Zero), factor), 1),
             fat |-> Round(RMul(DictGet(nutrition, "fat", Zero), factor), 1),
             fiber |-> Round(RMul(DictGet(nutrition, "fiber", Zero), factor), 1)]

\* get_glycemic_info_for_weight(food_name, weight_grams)
GetGlycemicInfoForWeight(nutrition_db, gi_table, food_name, weight_grams) ==
  LET gi_data == DictGet(gi_table, food_name, EmptyDict)
  IN  IF ~DictTruthy(gi_data) THEN EmptyDict
      ELSE
        LET carbs == GetCarbohydratesForWeight(nutrition_db, food_name, weight_grams)
            gl == RDiv(RMul(DictGet(gi_data, "gi_value", Zero), carbs), Hundred)
        IN  [gi |-> DictGet(gi_data, "gi_value", Zero),
             category |-> DictGet(gi_data, "gi_category", "unknown"),
             glycemic_load |-> Round(gl, 1)]

(***************************************************************************)
(* POST /weight-estimation                                                 *)
(***************************************************************************)
\* areas (cm2) a client sends
AreaValues == {0, 1, 2, 50, 100}

\* (4 / 3) * 3.14159 * (radius ** 3) with radius = (area / (4 * 3.14159)) ** 0.5,
\* the float result to 4 decimals, for the areas of AreaValues
SphereVolume(area_cm2) ==
  CASE area_cm2 = <<0, 1>> -> <<0, 1>>
    [] area_cm2 = <<1, 1>> -> <<940, 10000>>
    [] area_cm2 = <<2, 1>> -> <<2660, 10000>>
    [] area_cm2 = <<50, 1>> -> <<332452, 10000>>
    [] area_cm2 = <<100, 1>> -> <<940316, 10000>>
    [] area_cm2 = <<200, 1>> -> <<2659616, 10000>>

\* EnhancedVolume with the reduction of an irregular food added to the
\* volume instead of scaling it
EnhancedVolumeAdded(shape, area_cm2, thickness) ==
  IF shape = "cylinder" THEN RMul(area_cm2, thickness)
  ELSE IF shape = "sphere" THEN SphereVolume(area_cm2)
  ELSE
    LET volume == RMul(area_cm2, thickness)
    IN  IF shape = "irregular"
          THEN RNorm(<<volume[1] * 10 + 8 * volume[2], volume[2] * 10>>)
          ELSE volume

\* the volume by shape (lines 1157-1166).  For a cylinder
\* 3.14159 * radius * radius * thickness with radius = (area / 3.14159) ** 0.5
\* is area * thickness
EnhancedVolume(shape, area_cm2, thickness) ==
  IF shape = "cylinder" THEN RMul(area_cm2, thickness)
  ELSE IF shape = "sphere" THEN SphereVolume(area_cm2)
  ELSE
    LET volume == RMul(area_cm2, thickness)
    IN  IF shape = "irregular" THEN RMul(volume, <<8, 10>>) ELSE volume

\* the body of "for food_data in foods"
EnhancedEstimate(phys, nutrition_db, gi_table, food_data) ==
  LET food_name == Lower(food_data.name)
      area_cm2 == food_data.area_cm2
  IN  IF food_name \in DOMAIN phys
        THEN
          LET props == phys[food_name]
              thickness == DictGet(props, "thickness_cm", <<2, 1>>)
              shape == DictGet(props, "shape", "rectangular")
              volume == EnhancedVolume(shape, area_cm2, thickness)
              density == DictGet(props, "density", <<1, 1>>)
              estimated_weight == RMul(volume, density)
          IN  [food_name |-> food_name,
               estimated_weight_grams |-> Round(estimated_weight, 1),
               calculation_details |->
                 [area_cm2 |-> area_cm2,
                  thickness_cm |-> thickness,
                  volume_cm3 |-> Round(volume, 2),
                  density |-> density,
                  shape |-> shape],
               nutrition |->
                 GetNutritionForWeight(nutrition_db, food_name, estimated_weight),
               glycemic_info |->
                 GetGlycemicInfoForWeight(nutrition_db, gi_table, food_name,
                                          estimated_weight)]
        ELSE
          LET estimated_weight == RMul(RMul(area_cm2, <<2, 1>>), <<1, 1>>)
          IN  [food_name |-> food_name,
               estimated_weight_grams |-> Round(estimated_weight, 1),
               calculation_details |->
                 [area_cm2 |-> area_cm2,
                  method |-> "fallback_estimation",
                  note |-> "No specific data available for this food"],
               nutrition |-> EmptyDict,
               glycemic_info |-> EmptyDict]

\* POST /weight-estimation.  req.foods: "missing" (no JSON or no "foods"
\* key) or the list of {name, area_cm2}
EnhancedWeightEstimation(phys, nutrition_db, gi_table, req) ==
  IF req.has_foods = FALSE
    THEN Response(400, ErrorBody("No food data provided"))
    ELSE Response(200,
           [status |-> "success",
            weight_estimations |->
              [i \in DOMAIN req.foods |->
                 EnhancedEstimate(phys, nutrition_db, gi_table, req.foods[i])]])

(***************************************************************************)
(* NutritionDatabase.estimate_weight                                       *)
(***************************************************************************)
\* get_density_info(food_name): None when there is no entry
GetDensityInfo(density_doc, food_name) ==
  DictGet(DictGet(density_doc, "density_data", EmptyDict), Lower(food_name),
          EmptyDict)

\* estimate_weight(food_name, detected_area_cm2): (weight, details)
DbEstimateWeight(density_doc, food_name, detected_area_cm2) ==
  LET density_info == GetDensityInfo(density_doc, food_name)
  IN  IF ~DictTruthy(density_info)
        THEN [weight |-> RMul(detected_area_cm2, <<5, 10>>),
              details |-> [method |-> "fallback", confidence |-> "low"]]
        ELSE
          LET density == DictGet(density_info, "density_g_per_cm3", <<7, 10>>)
              thickness == DictGet(density_info, "avg_thickness_cm", <<2, 1>>)
              shape_factor == DictGet(density_info, "shape_factor", <<8, 10>>)
              volume_cm3 == RMul(RMul(detected_area_cm2, thickness), shape_factor)
              estimated_weight == RMul(volume_cm3, density)
          IN  [weight |-> estimated_weight,
               details |->
                 [method |-> "density_based",
                  confidence |-> "high",
                  area_cm2 |-> detected_area_cm2,
                  thickness_cm |-> thickness,
                  density_g_per_cm3 |-> density,
                  shape_factor |-> shape_factor,
                  volume_cm3 |-> volume_cm3]]

(***************************************************************************)
(* POST /diabetes-analysis                                                 *)
(***************************************************************************)
RAdd(a, b) == RNorm(<<a[1] * b[2] + b[1] * a[2], a[2] * b[2]>>)
RGt(a, b) == a[1] * b[2] > b[1] * a[2]

\* RiskStep with a load of exactly 20 counted as high risk
RiskStepInclusive(nutrition_db, gi_table, acc, food_data) ==
  LET food_name == Lower(DictGet(food_data, "name", S_empty))
      weight == DictGet(food_data, "weight", Hundred)
  IN  IF food_name \in DOMAIN gi_table
        THEN
          LET gi_data == gi_table[food_name]
              gi_value == gi_data["gi_value"]
              carbs == GetCarbohydratesForWeight(nutrition_db, food_name, weight)
              gl == RDiv(RMul(gi_value, carbs), Hundred)
          IN  [total_gi_score |-> RAdd(acc.total_gi_score, gi_value),
               total_gl_score |-> RAdd(acc.total_gl_score, gl),
               high_risk_foods |->
                 IF gi_data["gi_category"] = "high" \/ ~RGt(<<20, 1>>, gl)
                   THEN Append(acc.high_risk_foods,
                               [name |-> food_name,
                                gi |-> gi_value,
                                gl |-> Round(gl, 1),
                                reason |-> <<"High GI (", gi_value,
                                             ") or High GL (", Round(gl, 1), ")">>])
                   ELSE acc.high_risk_foods]
        ELSE acc

\* RiskStep with a food that has no glycemic record counted with a
\* default gi_value of 50
RiskStepDefaultGi(nutrition_db, gi_table, acc, food_data) ==
  LET food_name == Lower(DictGet(food_data, "name", S_empty))
      weight == DictGet(food_data, "weight", Hundred)
  IN  IF food_name \in DOMAIN gi_table
        THEN
          LET gi_data == gi_table[food_name]
              gi_value == gi_data["gi_value"]
              carbs == GetCarbohydratesForWeight(nutrition_db, food_name, weight)
              gl == RDiv(RMul(gi_value, carbs), Hundred)
          IN  [total_gi_score |-> RAdd(acc.total_gi_score, gi_value),
               total_gl_score |-> RAdd(acc.total_gl_score, gl),
               high_risk_foods |->
                 IF gi_data["gi_category"] = "high" \/ RGt(gl, <<20, 1>>)
                   THEN Append(acc.high_risk_foods,
                               [name |-> food_name,
                                gi |-> gi_value,
                                gl |-> Round(gl, 1),
                                reason |-> <<"High GI (", gi_value,
                                             ") or High GL (", Round(gl, 1), ")">>])
                   ELSE acc.high_risk_foods]
        ELSE [acc EXCEPT !.total_gi_score = RAdd(acc.total_gi_score, <<50, 1>>)]

\* one iteration of "for food_data in detected_foods" (lines 1008-1033);
\* every glycemic record holds gi_value and gi_category
RiskStep(nutrition_db, gi_table, acc, food_data) ==
  LET food_name == Lower(DictGet(food_data, "name", S_empty))
      weight == DictGet(food_data, "weight", Hundred)
  IN  IF food_name \in DOMAIN gi_table
        THEN
          LET gi_data == gi_table[food_name]
              gi_value == gi_data["gi_value"]
              carbs == GetCarbohydratesForWeight(nutrition_db, food_name, weight)
              gl == RDiv(RMul(gi_value, carbs), Hundred)
          IN  [total_gi_score |-> RAdd(acc.total_gi_score, gi_value),
               total_gl_score |-> RAdd(acc.total_gl_score, gl),
               high_risk_foods |->
                 IF gi_data["gi_category"] = "high" \/ RGt(gl, <<20, 1>>)
                   THEN Append(acc.high_risk_foods,
                               [name |-> food_name,
                                gi |-> gi_value,
                                gl |-> Round(gl, 1),
                                reason |-> <<"High GI (", gi_value,
                                             ") or High GL (", Round(gl, 1), ")">>])
                   ELSE acc.high_risk_foods]
        ELSE acc

RECURSIVE RiskLoop(_, _, _, _)
RiskLoop(nutrition_db, gi_table, acc, detected_foods) ==
  IF detected_foods = <<>> THEN acc
  ELSE RiskLoop(nutrition_db, gi_table,
                RiskStep(nutrition_db, gi_table, acc, Head(detected_foods)),
                Tail(detected_foods))

\* RiskLevel with the thresholds excluded
RiskLevelStrictBounds(avg_gi, avg_gl) ==
  IF avg_gi > 700 \/ avg_gl > 200 THEN "high"
  ELSE IF avg_gi > 560 \/ avg_gl > 110 THEN "medium"
  ELSE "low"

\* the risk level (lines 1039-1056); avg_gi and avg_gl are rounded to one
\* decimal and held in tenths
RiskLevel(avg_gi, avg_gl) ==
  IF avg_gi >= 700 \/ avg_gl >= 200 THEN "high"
  ELSE IF avg_gi >= 560 \/ avg_gl >= 110 THEN "medium"
  ELSE "low"

\* the recommendations of a risk level
RiskRecommendations(risk_level) ==
  CASE risk_level = "high" ->
         <<"Consider smaller portions", "Add high-fiber foods or protein",
           "Monitor blood glucose after meal">>
    [] risk_level = "medium" ->
         <<"Good portion control recommended", "Pair with vegetables or salad">>
    [] risk_level = "low" -> <<"Good choice for blood sugar control">>

\* RiskAlternatives with an entry for every food of the table
RiskAlternativesAll(alt_doc, high_risk_foods) ==
  LET table == DictGet(alt_doc, "alternatives", EmptyDict)
  IN  [food_name \in DOMAIN table |-> table[food_name]]

\* the alternatives of the high-risk foods (lines 1059-1063)
RiskAlternatives(alt_doc, high_risk_foods) ==
  LET table == DictGet(alt_doc, "alternatives", EmptyDict)
      names == { high_risk_foods[i].name : i \in DOMAIN high_risk_foods }
  IN  [food_name \in names \cap DOMAIN table |-> table[food_name]]

\* what diabetes_analysis makes of the loop's totals (lines 1035-1075)
RiskResponse(alt_doc, food_count, acc) ==
  LET avg_gi == IF food_count > 0
                  THEN Round(RDiv(acc.total_gi_score, <<food_count, 1>>), 1)
                  ELSE 0
      avg_gl == Round(acc.total_gl_score, 1)
      risk_level == RiskLevel(avg_gi, avg_gl)
  IN  Response(200,
        [status |-> "success",
         analysis |->
           [risk_level |-> risk_level,
            average_gi |-> avg_gi,
            total_glycemic_load |-> avg_gl,
            high_risk_foods |-> acc.high_risk_foods,
            recommendations |-> RiskRecommendations(risk_level),
            alternatives |->
              RiskAlternatives(alt_doc, acc.high_risk_foods)]])

\* POST /diabetes-analysis.  req.has_foods is FALSE when the request has no
\* JSON body or no "detected_foods" key
DiabetesAnalysis(nutrition_db, gi_table, alt_doc, req) ==
  IF req.has_foods = FALSE
    THEN Response(400, ErrorBody("No detected foods provided"))
    ELSE
      RiskResponse(alt_doc, Len(req.detected_foods),
                   RiskLoop(nutrition_db, gi_table,
                            [total_gi_score |-> Zero, total_gl_score |-> Zero,
                             high_risk_foods |-> <<>>],
                            req.detected_foods))

(***************************************************************************)
(* NutritionDatabase.calculate_meal_risk_score                             *)
(***************************************************************************)
IsDigits(s) == \A i \in DOMAIN s : \E d \in DOMAIN Digits : Digits[d] = s[i]

RECURSIVE DigitsValue(_)
DigitsValue(s) ==
  IF s = <<>> THEN 0
  ELSE 10 * DigitsValue(SubSeq(s, 1, Len(s) - 1))
         + (CHOOSE d \in 0 .. 9 : Digits[d + 1] = s[Len(s)])

\* str.split(sep) for a one-character separator
RECURSIVE Split(_, _)
Split(s, sep) ==
  IF \A i \in DOMAIN s : s[i] # sep THEN <<s>>
  ELSE LET i == CHOOSE j \in DOMAIN s : s[j] = sep /\ \A k \in 1 .. j - 1 : s[k] # sep
       IN  <<SubSeq(s, 1, i - 1)>> \o Split(SubSeq(s, i + 1, Len(s)), sep)

\* float(s) for unsigned decimal literals ("3", "2.5"); NoNumber stands for
\* ValueError
ParseFloat(s) ==
  LET t == Strip(s)
      parts == Split(t, ".")
  IN  IF t # <<>> /\ IsDigits(t) THEN <<DigitsValue(t), 1>>
      ELSE IF /\ Len(parts) = 2
              /\ IsDigits(parts[1]) /\ IsDigits(parts[2])
              /\ Len(parts[1]) + Len(parts[2]) > 0
              /\ Len(parts[2]) <= 3
        THEN RNorm(<<DigitsValue(parts[1]) * Pow10(Len(parts[2]))
                       + DigitsValue(parts[2]),
                     Pow10(Len(parts[2]))>>)
      ELSE NoNumber

\* get_nutrition_info / get_gi_info: {} stands for None
GetNutritionInfo(nutrition_doc, food_name) ==
  DictGet(DictGet(nutrition_doc, "foods", EmptyDict), Lower(food_name), EmptyDict)

GetGiInfo(gi_doc, food_name) ==
  DictGet(DictGet(gi_doc, "glycemic_index_data", EmptyDict), Lower(food_name),
          EmptyDict)

\* one iteration of "for food_item in detected_foods" (lines 107-148)
MealStep(nutrition_doc, gi_doc, acc, food_item) ==
  LET food_name == Lower(DictGet(food_item, "class", S_empty))
      weight_g == DictGet(food_item, "weight", Zero)
      nutrition == GetNutritionInfo(nutrition_doc, food_name)
      gi_info == GetGiInfo(gi_doc, food_name)
  IN  IF acc.raised # "no" THEN acc
      ELSE IF DictTruthy(nutrition) /\ DictTruthy(gi_info)
        THEN
          IF \/ "nutrition_per_100g" \notin DOMAIN nutrition
             \/ ~({"calories", "protein_g", "carbs_g"}
                    \subseteq DOMAIN nutrition["nutrition_per_100g"])
             \/ ~({"gi_value", "gi_category"} \subseteq DOMAIN gi_info)
            THEN [acc EXCEPT !.raised = "KeyError"]
            ELSE
              LET per_100g == nutrition["nutrition_per_100g"]
                  weight_factor == RDiv(weight_g, Hundred)
                  calories == RMul(per_100g["calories"], weight_factor)
                  protein == RMul(per_100g["protein_g"], weight_factor)
                  carbs == RMul(per_100g["carbs_g"], weight_factor)
                  fiber == RMul(DictGet(per_100g, "fiber_g", Zero), weight_factor)
                  gi_load == RDiv(RMul(gi_info["gi_value"], carbs), Hundred)
              IN  [total_calories |-> RAdd(acc.total_calories, calories),
                   total_protein |-> RAdd(acc.total_protein, protein),
                   total_carbs |-> RAdd(acc.total_carbs, carbs),
                   total_fiber |-> RAdd(acc.total_fiber, fiber),
                   total_gi_load |-> RAdd(acc.total_gi_load, gi_load),
                   food_analysis |->
                     Append(acc.food_analysis,
                            [food |-> food_name,
                             weight_g |-> weight_g,
                             gi_value |-> gi_info["gi_value"],
                             gi_category |-> gi_info["gi_category"],
                             gi_load |-> gi_load,
                             calories |-> calories,
                             carbs_g |-> carbs,
                             fiber_g |-> fiber,
                             protein_g |-> protein]),
                   raised |-> "no"]
        ELSE acc

RECURSIVE MealLoop(_, _, _, _)
MealLoop(nutrition_doc, gi_doc, acc, detected_foods) ==
  IF detected_foods = <<>> THEN acc
  ELSE MealLoop(nutrition_doc, gi_doc,
                MealStep(nutrition_doc, gi_doc, acc, Head(detected_foods)),
                Tail(detected_foods))

\* the weight of a risk factor (lines 151-164)
FactorWeight(risk_factors, factor, default) ==
  DictGet(DictGet(risk_factors, factor, EmptyDict), "weight", default)

\* "for level, info in risk_levels.items()" (lines 169-183); risk_levels is
\* the sequence of <<level, info>> in the order of the JSON object
RECURSIVE MealRiskLevel(_, _)
MealRiskLevel(risk_levels, risk_score) ==
  IF risk_levels = <<>>
    THEN [risk_level |-> "medium", risk_message |-> "Monitor blood sugar",
          risk_color |-> "#F59E0B", raised |-> "no"]
  ELSE
    LET level == Head(risk_levels)[1]
        info == Head(risk_levels)[2]
        score_range == Split(DictGet(info, "score_range", <<"0","-","1","0">>), "-")
        min_score == ParseFloat(score_range[1])
        max_score == IF Len(score_range) > 1 THEN ParseFloat(score_range[2])
                     ELSE <<10, 1>>
    IN  IF min_score = NoNumber \/ max_score = NoNumber
          THEN [risk_level |-> "medium", risk_message |-> "Monitor blood sugar",
                risk_color |-> "#F59E0B", raised |-> "ValueError"]
        ELSE IF ~RGt(min_score, risk_score) /\ ~RGt(risk_score, max_score)
          THEN [risk_level |-> level,
                risk_message |-> DictGet(info, "message", "Monitor blood sugar"),
                risk_color |-> DictGet(info, "color", "#F59E0B"),
                raised |-> "no"]
        ELSE MealRiskLevel(Tail(risk_levels), risk_score)

\* calculate_meal_risk_score(detected_foods); the function has no handler:
\* [raised |-> e] stands for the exception e leaving it
CalculateMealRiskScore(nutrition_doc, gi_doc, detected_foods) ==
  LET acc == MealLoop(nutrition_doc, gi_doc,
                      [total_gi_load |-> Zero, total_carbs |-> Zero,
                       total_fiber |-> Zero, total_protein |-> Zero,
                       total_calories |-> Zero, food_analysis |-> <<>>,
                       raised |-> "no"],
                      detected_foods)
      scoring == DictGet(gi_doc, "meal_risk_scoring", EmptyDict)
      risk_factors == DictGet(scoring, "risk_factors", EmptyDict)
      gi_load_score ==
        RMul(acc.total_gi_load, FactorWeight(risk_factors, "total_gi_load", <<4, 10>>))
      carb_score ==
        RMul(RDiv(acc.total_carbs, <<50, 1>>),
             FactorWeight(risk_factors, "carb_content", <<3, 10>>))
      fiber_score ==
        RMul(RDiv(acc.total_fiber, <<10, 1>>),
             FactorWeight(risk_factors, "fiber_content", <<-2, 10>>))
      protein_score ==
        RMul(RDiv(acc.total_protein, <<20, 1>>),
             FactorWeight(risk_factors, "protein_content", <<-1, 10>>))
      sum == RAdd(RAdd(gi_load_score, carb_score), RAdd(fiber_score, protein_score))
      risk_score == IF sum[1] < 0 THEN Zero ELSE sum
      level == MealRiskLevel(DictGet(scoring, "risk_levels", <<>>), risk_score)
  IN  IF acc.raised # "no" THEN [raised |-> acc.raised]
      ELSE IF level.raised # "no" THEN [raised |-> level.raised]
      ELSE [risk_score |-> Round(risk_score, 2),
            risk_level |-> level.risk_level,
            risk_message |-> level.risk_message,
            risk_color |-> level.risk_color,
            total_gi_load |-> Round(acc.total_gi_load, 2),
            total_calories |-> Round(acc.total_calories, 1),
            total_carbs_g |-> Round(acc.total_carbs, 1),
            total_fiber_g |-> Round(acc.total_fiber, 1),
            total_protein_g |-> Round(acc.total_protein, 1),
            food_analysis |-> acc.food_analysis]

(***************************************************************************)
(* POST /generate-mask                                                     *)
(***************************************************************************)
\* colors of create_colorized_mask: (R, G, B, alpha) by palette key, the keys
\* spelled as the source spells them
colors ==
  (<<"b","h","a","t">> :> <<52, 168, 83, 120>>) @@
  (<<"d","a","a","l">> :> <<251, 188, 4, 120>>) @@
  (<<"m","a","s","u">> :> <<234, 67, 53, 120>>) @@
  (<<"m","o","m","o">> :> <<142, 36, 170, 120>>) @@
  (<<"r","o","t","i">> :> <<255, 109, 1, 120>>) @@
  (<<"c","h","o","w","m","e","i","n">> :> <<6, 174, 212, 120>>) @@
  (<<"g","u","n","d","r","u","k">> :> <<34, 197, 94, 120>>) @@
  (<<"c","h","a","n","a"," ","m","a","s","a","l","a">> :> <<249, 115, 22, 120>>) @@
  (<<"p","a","k","o","d","a">> :> <<168, 85, 247, 120>>) @@
  (<<"s","a","m","o","s","a">> :> <<236, 72, 153, 120>>) @@
  (<<"y","o","m","a","r","i">> :> <<14, 165, 233, 120>>) @@
  (<<"k","h","e","e","r">> :> <<253, 224, 71, 120>>) @@
  (<<"c","h","i","y","a">> :> <<120, 113, 108, 120>>) @@
  (<<"S","e","l","r","o","t","i">> :> <<252, 165, 165, 120>>) @@
  (<<"d","h","i","d","o">> :> <<134, 239, 172, 120>>) @@
  (<<"b","u","r","g","e","r">> :> <<255, 202, 40, 120>>)

\* default_color, and the fill of the fresh overlay
default_color == <<156, 163, 175, 120>>
Transparent == <<0, 0, 0, 0>>

\* np.array(mask_image) in generate_mask: a mask whose mode is neither "L" nor
\* "P" is first converted to "L", which keeps the luminance band only
MaskArray(mk) ==
  IF mk.mode = "L" THEN mk.data
  ELSE [i \in 1 .. mk.width * mk.height |-> mk.data[Bands(mk.mode) * (i - 1) + 1]]

\* mask_image.resize((width, height), NEAREST) when the shapes differ: the
\* target pixel (x, y) takes the source pixel under its centre
ResizeNearest(data, w, h, width, height) ==
  IF <<h, w>> = <<height, width>> THEN data
  ELSE [i \in 1 .. width * height |->
          LET x == (i - 1) % width
              y == (i - 1) \div width
              sx == ((2 * x + 1) * w) \div (2 * width)
              sy == ((2 * y + 1) * h) \div (2 * height)
          IN  data[sy * w + sx + 1]]

\* the colour one iteration of "for class_id in unique_ids" paints the pixels
\* of class_id with; Transparent when the iteration is skipped
OverlayColor(class_id, class_map) ==
  IF class_id = 0 THEN Transparent
  ELSE
    LET class_name == Strip(DictGet(class_map, ToStr(class_id), S_empty))
    IN  IF class_name = S_empty \/ Lower(class_name) = S_background
          THEN Transparent
          ELSE DictGet(colors, Lower(class_name), default_color)

\* as CreateColorizedMask, the except clause returning the gray overlay
CreateColorizedMaskGrayOnFailure(mask_array, class_map_kind, class_map, width, height) ==
  IF class_map_kind # "dict" /\ \E i \in DOMAIN mask_array : mask_array[i] # 0
    THEN [width |-> width, height |-> height,
          overlay |-> [i \in 1 .. width * height |-> default_color]]
    ELSE [width |-> width, height |-> height,
          overlay |-> [i \in 1 .. width * height |->
                         OverlayColor(mask_array[i], class_map)]]

\* create_colorized_mask(mask_array, class_map, original_image).  The result
\* is the original image under an overlay, kept as the overlay colour of
\* each pixel (a Transparent pixel shows the original unchanged).  A
\* class_map that is no dict makes class_map.get raise at the first non-zero
\* id; the except clause returns the original image.
CreateColorizedMask(mask_array, class_map_kind, class_map, width, height) ==
  IF class_map_kind # "dict" /\ \E i \in DOMAIN mask_array : mask_array[i] # 0
    THEN [width |-> width, height |-> height,
          overlay |-> [i \in 1 .. width * height |-> Transparent]]
    ELSE [width |-> width, height |-> height,
          overlay |-> [i \in 1 .. width * height |->
                         OverlayColor(mask_array[i], class_map)]]

\* POST /generate-mask.  req.fields: the keys of the JSON body ({} when there
\* is no body); req.original_image.kind: "file_uri", "bad_base64",
\* "undecodable" (Image.open raises) or "image"
GenerateMask(req) ==
  IF req.fields = {}
    THEN Response(400, ErrorBody("No JSON data provided"))
  ELSE IF {"segmentation_mask", "class_map", "original_image"} \ req.fields # {}
    THEN Response(400, ErrorBody("Missing required field"))
  ELSE IF ~Decodes(req.segmentation_mask)
    THEN Response(400, ErrorBody("Could not decode segmentation mask"))
  ELSE IF req.original_image.kind = "file_uri"
    THEN Response(400, ErrorBody("File URI not supported. Please send base64 image data."))
  ELSE IF req.original_image.kind = "bad_base64"
    THEN Response(400, ErrorBody("Invalid base64 data"))
  ELSE IF req.original_image.kind = "undecodable"
    THEN Response(400, ErrorBody("Could not decode original image"))
  ELSE
    LET mk == req.segmentation_mask
        width == req.original_image.width
        height == req.original_image.height
        mask_array == ResizeNearest(MaskArray(mk), mk.width, mk.height,
                                    width, height)
    IN  Response(200,
                 [status |-> "success",
                  mask_overlay |->
                    CreateColorizedMask(mask_array, req.class_map_kind,
                                        req.class_map, width, height),
                  message |-> "Mask overlay generated successfully"])

(***************************************************************************)
(* State                                                                   *)
(***************************************************************************)
VARIABLES
  model_ready,          \* the global "model" is not None (Roboflow initialised)
  physical_properties,  \* app.py global, from physical_properties.json
  nutrition_database,   \* app.py global, from nutrition_database.json
  glycemic_index,       \* app.py global, from glycemic_index.json
  food_alternatives,    \* app.py global, from food_alternatives.json
  density_data,         \* nutrition_db.density_data (NutritionDatabase)
  nutrition_data,       \* nutrition_db.nutrition_data (NutritionDatabase)
  gi_data,              \* nutrition_db.gi_data (NutritionDatabase)
  op,                   \* the operation that is running, "idle" when none
  input,                \* its arguments
  output,               \* what it returned (for a handler: the JSON body)
  http_status,          \* for a handler: the status code of the response, else 0
  temp_file,            \* the temporary image file of the running /predict call:
                        \* "none" (not created), "deleted" or "left" on disk
  requests              \* the requests the threaded server is working on, by
                        \* worker thread (used when handlers interleave)

tables ==
  <<physical_properties, nutrition_database, glycemic_index, food_alternatives,
    density_data, nutrition_data, gi_data>>

vars == <<model_ready, tables, op, input, output, http_status, temp_file, requests>>

\* the number of worker threads that serve requests at the same time
MaxRequests == 2

\* a worker thread that serves no request
NoRequest == [state |-> "free"]

Idle ==
  /\ op = "idle"
  /\ input = EmptyDict
  /\ output = EmptyDict
  /\ http_status = 0
  /\ temp_file = "none"
  /\ requests = [s \in 1 .. MaxRequests |-> NoRequest]

\* after module import: the model is initialised or, when Roboflow could not
\* be reached, None; the tables hold what the data files held; nothing runs
Init ==
  /\ model_ready \in BOOLEAN
  /\ physical_properties \in PhysicalTables
  /\ nutrition_database \in NutritionTables \cup {RiskNutrition}
  /\ glycemic_index \in GlycemicTables \cup {RiskGlycemic}
  /\ food_alternatives \in AlternativesDocs
  /\ density_data \in DensityTables
  /\ nutrition_data \in { EmptyDict, [foods |-> DbFoods] }
  /\ gi_data \in GiDocs
  /\ Idle

\* start-up when no data file could be read: every table is {} (app.py lines
\* 44-50, nutrition_database.py lines 20-22).  The detection pipeline reads
\* none of the tables.
InitNoData ==
  /\ model_ready \in BOOLEAN
  /\ physical_properties = EmptyDict
  /\ nutrition_database = EmptyDict
  /\ glycemic_index = EmptyDict
  /\ food_alternatives = EmptyDict
  /\ density_data = EmptyDict
  /\ nutrition_data = EmptyDict
  /\ gi_data = EmptyDict
  /\ Idle

\* a prediction that is never read (the handler answered before inference)
NoPrediction == RootPrediction(AbsentMask("none"), EmptyDict)

\* the request shapes that end before the segmentation result is read
EarlyPredictRequests ==
  { [image |-> i, inference |-> "raises", prediction |-> NoPrediction] :
      i \in {"missing", "undecodable", "ok"} }

EarlyDirectRequests ==
  { [image |-> i, upstream |-> u,
     result |-> Pred(AbsentMask("none"), EmptyDict)] :
      i \in {"missing", "ok"}, u \in {"raises", "http_error"} }

(***************************************************************************)
(* Actions                                                                 *)
(***************************************************************************)
\* process_prediction_result(prediction), as /predict and /test call it once
\* the model has answered
CallProcessPredictionResult ==
  /\ op = "idle"
  /\ model_ready
  /\ \E form \in PredictionForms, mk \in Masks, cm \in ClassMaps :
       LET prediction == Prediction(form, mk, cm)
       IN  /\ op' = "process_prediction_result"
           /\ input' = [prediction |-> prediction]
           /\ output' = ProcessPredictionResult(prediction)
           /\ http_status' = 0
  /\ UNCHANGED <<model_ready, tables, temp_file, requests>>

\* the response of a handler
Responds(name, req, r) ==
  /\ op' = name
  /\ input' = req
  /\ output' = r.body
  /\ http_status' = r.code

\* POST /predict
HandlePredict ==
  /\ op = "idle"
  /\ \/ \E req \in EarlyPredictRequests :
          /\ Responds("predict", req, Predict(model_ready, req))
          /\ temp_file' = PredictTempFile(model_ready, req)
     \/ \E form \in PredictionForms, mk \in Masks, cm \in ClassMaps :
          LET req == [image |-> "ok", inference |-> "ok",
                      prediction |-> Prediction(form, mk, cm)]
          IN  /\ Responds("predict", req, Predict(model_ready, req))
              /\ temp_file' = PredictTempFile(model_ready, req)
  /\ UNCHANGED <<model_ready, tables, requests>>

\* POST /direct-predict
HandleDirectPredict ==
  /\ op = "idle"
  /\ \/ \E req \in EarlyDirectRequests :
          Responds("direct_predict", req, DirectPredict(req))
     \/ \E mk \in Masks, cm \in ClassMaps :
          LET req == [image |-> "ok", upstream |-> "ok", result |-> Pred(mk, cm)]
          IN  Responds("direct_predict", req, DirectPredict(req))
  /\ UNCHANGED <<model_ready, tables, temp_file, requests>>

\* the call returns: its request-scoped values are dropped
Return ==
  /\ op # "idle"
  /\ op' = "idle"
  /\ input' = EmptyDict
  /\ output' = EmptyDict
  /\ http_status' = 0
  /\ temp_file' = "none"
  /\ UNCHANGED <<model_ready, tables, requests>>

\* start-up for the weight estimators: any physical and density table, the
\* nutrition and glycemic tables loaded
InitWeight ==
  /\ model_ready = TRUE
  /\ physical_properties \in PhysicalTables
  /\ nutrition_database = FullNutrition
  /\ glycemic_index = FullGlycemic
  /\ food_alternatives = EmptyDict
  /\ density_data \in DensityTables
  /\ nutrition_data = EmptyDict
  /\ gi_data = EmptyDict
  /\ Idle

\* mask_info / class_areas as a caller hands them to estimate_weight_from_area
MaskInfos ==
  { EmptyDict }
    \cup { [width |-> d[1], height |-> d[2], total_pixels |-> d[1] * d[2]] :
             d \in { <<0, 0>>, <<3, 1>>, <<2, 2>>, <<100, 100>> } }

PixelValues == {0, 1, 2500}

AreaFoods == { S_bhat, S_Selroti, S_pizza }

TotalPixelsOf(mask_info) == DictGet(mask_info, "total_pixels", 0)

AreaEntry(pixels, total_pixels) ==
  [pixels |-> pixels,
   percentage |-> IF total_pixels > 0 THEN Round(<<pixels * 100, total_pixels>>, 2) ELSE 0,
   class_id |-> 1]

\* estimate_weight_from_area(class_areas, mask_info)
CallEstimateWeightFromArea ==
  /\ op = "idle"
  /\ \E mask_info \in MaskInfos, names \in SUBSET AreaFoods :
       /\ Cardinality(names) = 1 \/ names = {S_bhat, S_pizza}
       /\ \E px \in [names -> PixelValues] :
            /\ \A n \in names : px[n] <= TotalPixelsOf(mask_info) \/ px[n] <= 1
            /\ LET class_areas ==
                     [n \in names |-> AreaEntry(px[n], TotalPixelsOf(mask_info))]
               IN  /\ op' = "estimate_weight_from_area"
                   /\ input' = [class_areas |-> class_areas, mask_info |-> mask_info]
                   /\ output' = EstimateWeightFromArea(class_areas, mask_info)
                   /\ http_status' = 0
  /\ UNCHANGED <<model_ready, tables, temp_file, requests>>

\* the largest number of foods in one /weight-estimation request
MaxFoods == 1

FoodRequests ==
  { [name |-> n, area_cm2 |-> <<a, 1>>] :
      n \in {S_bhat, S_Bhat, S_pizza}, a \in AreaValues }

WeightRequests ==
  { [has_foods |-> FALSE, foods |-> <<>>] }
    \cup { [has_foods |-> TRUE, foods |-> fs] :
             fs \in UNION { [1 .. n -> FoodRequests] : n \in 0 .. MaxFoods } }

\* POST /weight-estimation
HandleWeightEstimation ==
  /\ op = "idle"
  /\ \E req \in WeightRequests :
       LET r == EnhancedWeightEstimation(physical_properties, nutrition_database,
                                         glycemic_index, req)
       IN  Responds("weight_estimation", req, r)
  /\ UNCHANGED <<model_ready, tables, temp_file, requests>>

\* nutrition_db.estimate_weight(food_name, detected_area_cm2)
CallDbEstimateWeight ==
  /\ op = "idle"
  /\ \E food_name \in {S_bhat, S_Bhat, S_pizza}, a \in AreaValues :
       /\ op' = "db_estimate_weight"
       /\ input' = [food_name |-> food_name, detected_area_cm2 |-> <<a, 1>>]
       /\ output' = DbEstimateWeight(density_data, food_name, <<a, 1>>)
       /\ http_status' = 0
  /\ UNCHANGED <<model_ready, tables, temp_file, requests>>

\* start-up for the risk engine.  app.py keeps its four tables only when
\* every data file loaded (lines 28-50); NutritionDatabase loads each file
\* on its own
InitRisk ==
  /\ model_ready = TRUE
  /\ physical_properties = EmptyDict
  /\ density_data = EmptyDict
  /\ \/ /\ nutrition_database = EmptyDict
        /\ glycemic_index = EmptyDict
        /\ food_alternatives = EmptyDict
        /\ nutrition_data = EmptyDict
        /\ gi_data = EmptyDict
     \/ /\ nutrition_database = RiskNutrition
        /\ glycemic_index = RiskGlycemic
        /\ food_alternatives \in AlternativesDocs
        /\ nutrition_data = [foods |-> DbFoods]
        /\ gi_data \in GiDocs \ {EmptyDict}
  /\ Idle

\* the largest number of foods in one meal
MaxMeal == 2

\* the foods a client lists in /diabetes-analysis: {name, weight}, either
\* key optional
MealFoods ==
  { Opt("name", FoodNames.daal) @@ Opt("weight", w) :
      w \in { NoNumber, <<110, 1>>, <<190, 1>>, <<200, 1>>, <<1002, 5>>, <<210, 1>> } }
    \cup { Opt("name", n) @@ Opt("weight", w) :
             n \in { S_bhat, FoodNames.selroti, FoodNames.roti, FoodNames.momo,
                     FoodNames.chowmein, FoodNames.dhido, S_pizza },
             w \in { NoNumber, Zero } }
    \cup { Opt("name", S_Bhat), EmptyDict }

DiabetesRequests ==
  { [has_foods |-> FALSE, detected_foods |-> <<>>] }
    \cup { [has_foods |-> TRUE, detected_foods |-> fs] :
             fs \in UNION { [1 .. n -> MealFoods] : n \in 0 .. MaxMeal } }

\* POST /diabetes-analysis
HandleDiabetesAnalysis ==
  /\ op = "idle"
  /\ \E req \in DiabetesRequests :
       Responds("diabetes_analysis", req,
                DiabetesAnalysis(nutrition_database, glycemic_index,
                                 food_alternatives, req))
  /\ UNCHANGED <<model_ready, tables, temp_file, requests>>

\* the foods a caller hands to calculate_meal_risk_score: {class, weight}
DetectedFoods ==
  { Opt("class", n) @@ Opt("weight", w) :
      n \in { S_bhat, FoodNames.daal, FoodNames.roti, FoodNames.momo,
              FoodNames.dhido, FoodNames.chowmein, S_pizza },
      w \in { NoNumber, Hundred } }
    \cup { Opt("class", S_Bhat) @@ Opt("weight", <<250, 1>>),
           Opt("class", FoodNames.daal) @@ Opt("weight", <<250, 1>>),
           Opt("weight", Hundred) }

\* nutrition_db.calculate_meal_risk_score(detected_foods)
CallCalculateMealRiskScore ==
  /\ op = "idle"
  /\ \E detected_foods \in UNION { [1 .. n -> DetectedFoods] : n \in 0 .. MaxMeal } :
       /\ op' = "calculate_meal_risk_score"
       /\ input' = [detected_foods |-> detected_foods]
       /\ output' = CalculateMealRiskScore(nutrition_data, gi_data, detected_foods)
       /\ http_status' = 0
  /\ UNCHANGED <<model_ready, tables, temp_file, requests>>

\* start-up for the nutrition scaler: any nutrition table, among them one
\* whose bhat entry has no nutrition_per_100g
InitNutrition ==
  /\ model_ready = TRUE
  /\ physical_properties = EmptyDict
  /\ nutrition_database
       \in NutritionTables \cup { RiskNutrition, (S_bhat :> [category |-> "grain"]) }
  /\ glycemic_index = EmptyDict
  /\ food_alternatives = EmptyDict
  /\ density_data = EmptyDict
  /\ nutrition_data = EmptyDict
  /\ gi_data = EmptyDict
  /\ Idle

\* get_nutrition_for_weight(food_name, weight_grams)
CallGetNutritionForWeight ==
  /\ op = "idle"
  /\ \E food_name \in { S_bhat, S_Bhat, FoodNames.roti, FoodNames.daal,
                         FoodNames.chowmein, S_pizza },
        weight_grams \in { Zero, <<37, 1>>, Hundred, <<125, 1>> } :
       /\ op' = "get_nutrition_for_weight"
       /\ input' = [food_name |-> food_name, weight_grams |-> weight_grams]
       /\ output' = GetNutritionForWeight(nutrition_database, food_name, weight_grams)
       /\ http_status' = 0
  /\ UNCHANGED <<model_ready, tables, temp_file, requests>>

\* get_carbohydrates_for_weight(food_name, weight_grams)
CallGetCarbohydratesForWeight ==
  /\ op = "idle"
  /\ \E food_name \in { S_bhat, S_Bhat, FoodNames.roti, FoodNames.daal,
                         FoodNames.chowmein, S_pizza },
        weight_grams \in { Zero, <<37, 1>>, Hundred, <<125, 1>> } :
       /\ op' = "get_carbohydrates_for_weight"
       /\ input' = [food_name |-> food_name, weight_grams |-> weight_grams]
       /\ output' = GetCarbohydratesForWeight(nutrition_database, food_name,
                                               weight_grams)
       /\ http_status' = 0
  /\ UNCHANGED <<model_ready, tables, temp_file, requests>>

\* POST /generate-mask
HandleGenerateMask ==
  /\ op = "idle"
  /\ \/ \E fields \in { {}, {"segmentation_mask", "class_map"} } :
          LET req == [fields |-> fields,
                      segmentation_mask |-> AbsentMask("none"),
                      class_map_kind |-> "dict", class_map |-> EmptyDict,
                      original_image |-> [kind |-> "undecodable",
                                          width |-> 0, height |-> 0]]
          IN  Responds("generate_mask", req, GenerateMask(req))
     \/ \E mk \in Masks, cm \in ClassMaps, kind \in {"dict", "list"},
           original_image \in
             { [kind |-> k, width |-> 0, height |-> 0] :
                 k \in {"file_uri", "bad_base64", "undecodable"} }
               \cup { [kind |-> "image", width |-> sz[1], height |-> sz[2]] :
                        sz \in ImageSizes } :
          \* a class map that is never read is left empty, and so is the
          \* alpha band of a mask, which the conversion to "L" drops
          /\ (kind = "list" \/ original_image.kind # "image") => cm = EmptyDict
          /\ mk.mode # "L" =>
               \A i \in DOMAIN mk.data : i % Bands(mk.mode) = 0 => mk.data[i] = 0
          /\ LET req == [fields |-> {"segmentation_mask", "class_map",
                                     "original_image"},
                         segmentation_mask |-> mk,
                         class_map_kind |-> kind, class_map |-> cm,
                         original_image |-> original_image]
             IN  Responds("generate_mask", req, GenerateMask(req))
  /\ UNCHANGED <<model_ready, tables, temp_file, requests>>

\* start-up of a deployment that serves requests on several worker threads:
\* every data file loaded, or none (lines 28-50)
InitConcurrent ==
  /\ model_ready = TRUE
  /\ density_data = EmptyDict
  /\ nutrition_data = EmptyDict
  /\ gi_data = EmptyDict
  /\ \/ /\ physical_properties = EmptyDict
        /\ nutrition_database = EmptyDict
        /\ glycemic_index = EmptyDict
        /\ food_alternatives = EmptyDict
     \/ /\ physical_properties =
             (S_bhat :> [shape |-> "cylinder", thickness_cm |-> <<15, 10>>,
                         density |-> <<8, 10>>])
        /\ nutrition_database = RiskNutrition
        /\ glycemic_index = RiskGlycemic
        /\ food_alternatives =
             [alternatives |-> (S_bhat :> <<"brown rice">>)
                                 @@ (FoodNames.daal :> <<"moong daal">>)]
  /\ Idle

\* a worker thread takes a /weight-estimation or a /diabetes-analysis request
\* that carries a food list; acc holds the locals the handler's loop fills
Accept(s) ==
  /\ requests[s].state = "free"
  /\ \/ \E foods \in { <<[name |-> S_pizza, area_cm2 |-> <<50, 1>>]>>,
                        <<[name |-> S_Bhat, area_cm2 |-> <<50, 1>>],
                          [name |-> S_pizza, area_cm2 |-> <<100, 1>>]>> } :
          requests' = [requests EXCEPT ![s] =
                         [state |-> "running", handler |-> "weight_estimation",
                          req |-> [has_foods |-> TRUE, foods |-> foods],
                          acc |-> <<>>, done |-> 0]]
     \/ \E foods \in { <<[name |-> S_bhat]>>,
                        <<[name |-> FoodNames.daal, weight |-> <<200, 1>>],
                          [name |-> S_Bhat]>> } :
          requests' = [requests EXCEPT ![s] =
                         [state |-> "running", handler |-> "diabetes_analysis",
                          req |-> [has_foods |-> TRUE, detected_foods |-> foods],
                          acc |-> [total_gi_score |-> Zero, total_gl_score |-> Zero,
                                   high_risk_foods |-> <<>>],
                          done |-> 0]]
  /\ UNCHANGED <<model_ready, tables, op, input, output, http_status, temp_file>>

\* as Step, an unknown food of /weight-estimation remembered in
\* physical_properties with an empty profile
StepRemembering(s) ==
  /\ requests[s].state = "running"
  /\ LET r == requests[s]
     IN  IF r.handler = "weight_estimation"
           THEN /\ r.done < Len(r.req.foods)
                /\ requests' = [requests EXCEPT ![s] =
                     [r EXCEPT
                        !.acc = Append(r.acc,
                                  EnhancedEstimate(physical_properties,
                                                   nutrition_database, glycemic_index,
                                                   r.req.foods[r.done + 1])),
                        !.done = r.done + 1]]
                /\ physical_properties' =
                     LET food_name == Lower(r.req.foods[r.done + 1].name)
                     IN  IF food_name \in DOMAIN physical_properties
                           THEN physical_properties
                           ELSE DictPut(physical_properties, food_name, EmptyDict)
           ELSE /\ r.done < Len(r.req.detected_foods)
                /\ requests' = [requests EXCEPT ![s] =
                     [r EXCEPT
                        !.acc = RiskStep(nutrition_database, glycemic_index, r.acc,
                                         r.req.detected_foods[r.done + 1]),
                        !.done = r.done + 1]]
                /\ UNCHANGED physical_properties
  /\ UNCHANGED <<model_ready, nutrition_database, glycemic_index, food_alternatives,
                 density_data, nutrition_data, gi_data,
                 op, input, output, http_status, temp_file>>

\* one iteration of the handler's loop over the food list, with the tables
\* as they are when it runs (app.py lines 1008-1033 and 1146-1208)
Step(s) ==
  /\ requests[s].state = "running"
  /\ LET r == requests[s]
     IN  IF r.handler = "weight_estimation"
           THEN /\ r.done < Len(r.req.foods)
                /\ requests' = [requests EXCEPT ![s] =
                     [r EXCEPT
                        !.acc = Append(r.acc,
                                  EnhancedEstimate(physical_properties,
                                                   nutrition_database, glycemic_index,
                                                   r.req.foods[r.done + 1])),
                        !.done = r.done + 1]]
           ELSE /\ r.done < Len(r.req.detected_foods)
                /\ requests' = [requests EXCEPT ![s] =
                     [r EXCEPT
                        !.acc = RiskStep(nutrition_database, glycemic_index, r.acc,
                                         r.req.detected_foods[r.done + 1]),
                        !.done = r.done + 1]]
  /\ UNCHANGED <<model_ready, tables, op, input, output, http_status, temp_file>>

\* the loop is over: the handler builds its response
Answer(s) ==
  /\ requests[s].state = "running"
  /\ LET r == requests[s]
     IN  IF r.handler = "weight_estimation"
           THEN /\ r.done = Len(r.req.foods)
                /\ requests' = [requests EXCEPT ![s] =
                     [state |-> "answered", handler |-> r.handler, req |-> r.req,
                      response |-> Response(200, [status |-> "success",
                                                  weight_estimations |-> r.acc])]]
           ELSE /\ r.done = Len(r.req.detected_foods)
                /\ requests' = [requests EXCEPT ![s] =
                     [state |-> "answered", handler |-> r.handler, req |-> r.req,
                      response |-> RiskResponse(food_alternatives,
                                                Len(r.req.detected_foods), r.acc)]]
  /\ UNCHANGED <<model_ready, tables, op, input, output, http_status, temp_file>>

\* the response is sent and the worker thread is free again
Release(s) ==
  /\ requests[s].state = "answered"
  /\ requests' = [requests EXCEPT ![s] = NoRequest]
  /\ UNCHANGED <<model_ready, tables, op, input, output, http_status, temp_file>>

\* requests served at the same time, their handlers interleaved
NextConcurrent ==
  \E s \in 1 .. MaxRequests : Accept(s) \/ Step(s) \/ Answer(s) \/ Release(s)

SpecConcurrent == InitConcurrent /\ [][NextConcurrent]_vars

\* the nutrition scaler
NextNutrition == CallGetNutritionForWeight \/ CallGetCarbohydratesForWeight \/ Return

SpecNutrition == InitNutrition /\ [][NextNutrition]_vars

\* the risk engine
NextRisk == HandleDiabetesAnalysis \/ CallCalculateMealRiskScore \/ Return

SpecRisk == InitRisk /\ [][NextRisk]_vars

\* area calculation and the weight estimate from it, on their own
NextArea == CallProcessPredictionResult \/ CallEstimateWeightFromArea \/ Return

SpecArea == InitNoData /\ [][NextArea]_vars

\* the two detection endpoints
NextHttp == HandlePredict \/ HandleDirectPredict \/ Return

SpecHttp == InitNoData /\ [][NextHttp]_vars

\* the weight estimators
NextWeight ==
  \/ CallEstimateWeightFromArea
  \/ HandleWeightEstimation
  \/ CallDbEstimateWeight
  \/ Return

SpecWeight == InitWeight /\ [][NextWeight]_vars

\* the overlay generator
NextOverlay == HandleGenerateMask \/ Return

SpecOverlay == InitNoData /\ [][NextOverlay]_vars

\* every operation
Next ==
  \/ NextArea \/ NextHttp \/ NextWeight \/ NextRisk \/ NextNutrition
  \/ NextOverlay \/ NextConcurrent

Spec == Init /\ [][Next]_vars

(***************************************************************************)
(* Properties                                                              *)
(***************************************************************************)
\* the segmentation result the running operation reads
RequestPred ==
  IF op = "direct_predict" THEN input.result
  ELSE PredictionFields(input.prediction)

\* a reserved label: "background", "none" or empty, whitespace and letter
\* case ignored
ReservedLabel(s) == Lower(Strip(s)) \in {S_background, S_none, S_empty}

\* the sum of the pixel counts of the class_areas entries
RECURSIVE SumPixels(_)
SumPixels(class_areas) ==
  IF DOMAIN class_areas = {} THEN 0
  ELSE LET n == CHOOSE x \in DOMAIN class_areas : TRUE
       IN  class_areas[n].pixels
             + SumPixels([x \in DOMAIN class_areas \ {n} |-> class_areas[x]])

\* every element of the mask carries an id whose label is a food
EveryPixelIsFood(mk, cm) ==
  \A i \in DOMAIN mk.data :
    /\ ToStr(mk.data[i]) \in DOMAIN cm
    /\ ~ReservedLabel(cm[ToStr(mk.data[i])])

\* the ids present in the mask whose label is a food
AcceptedIds(mk, cm) ==
  { mk.data[i] : i \in { j \in DOMAIN mk.data :
                           /\ ToStr(mk.data[j]) \in DOMAIN cm
                           /\ ~ReservedLabel(cm[ToStr(mk.data[j])]) } }

\* the food labels of a class map, stripped
FoodLabels(cm) ==
  { Strip(cm[k]) : k \in { x \in DOMAIN cm : ~ReservedLabel(cm[x]) } }

SeqToSet(sq) == { sq[i] : i \in DOMAIN sq }

ProcessedMaskResult ==
  /\ op = "process_prediction_result"
  /\ "class_areas" \in DOMAIN output

\* C1: for every mask that decodes, whatever its pixel mode, the pixel counts
\* of the accepted classes sum to at most total_pixels, with equality exactly
\* when every pixel's id maps to a non-reserved label.
C1_PixelCountsWithinFrame ==
  (ProcessedMaskResult /\ Decodes(RequestPred.segmentation_mask)) =>
     LET total == output.mask_info.total_pixels
         sum == SumPixels(output.class_areas)
     IN  /\ sum <= total
         /\ (sum = total) <=>
              EveryPixelIsFood(RequestPred.segmentation_mask, RequestPred.class_map)

\* the number of mask elements whose id maps to the label name
ElementsLabelled(mk, cm, name) ==
  Cardinality({ i \in DOMAIN mk.data :
                  /\ ToStr(mk.data[i]) \in DOMAIN cm
                  /\ Strip(cm[ToStr(mk.data[i])]) = name })

\* C2: when two ids present in the mask map to the same label, /predict and
\* /direct-predict report one class_areas entry for the label whose pixel
\* count is the sum over both ids.
C2_DuplicateLabelsMerged ==
  (/\ op \in {"predict", "direct_predict"}
   /\ http_status = 200
   /\ "class_areas" \in DOMAIN output) =>
     \A name \in DOMAIN output.class_areas :
       output.class_areas[name].pixels =
         ElementsLabelled(RequestPred.segmentation_mask, RequestPred.class_map, name)

\* C3: with a missing, empty or undecodable mask and a non-empty class map,
\* process_prediction_result returns every non-reserved label as detected,
\* empty class_areas and a total_food_area of 0 pixels and 0 percent.
C3_AbsentMaskFallsBack ==
  (/\ op = "process_prediction_result"
   /\ ~Decodes(RequestPred.segmentation_mask)
   /\ DictTruthy(RequestPred.class_map)) =>
     /\ SeqToSet(output.detected_classes) = FoodLabels(RequestPred.class_map)
     /\ "class_areas" \in DOMAIN output
     /\ DOMAIN output.class_areas = {}
     /\ output.total_food_area = [pixels |-> 0, percentage |-> 0]

\* the request reached the mask: the image was sent and the model answered
ReachedMask ==
  \/ /\ op = "predict"
     /\ model_ready
     /\ input.image = "ok"
     /\ input.inference = "ok"
  \/ /\ op = "direct_predict"
     /\ input.image = "ok"
     /\ input.upstream = "ok"

\* C4: an undecodable mask never fails the request: /predict and
\* /direct-predict answer with a success response.
C4_MalformedMaskStillSucceeds ==
  (ReachedMask /\ RequestPred.segmentation_mask.kind = "malformed") =>
     /\ http_status = 200
     /\ output.status = "success"

\* the keys of a result computed from the mask
MaskResultKeys ==
  {"detected_classes", "total_classes", "class_areas", "total_food_area",
   "mask_info", "segmentation_mask", "class_map", "image_info"}

\* detected_classes was taken from the class map, not from mask pixels
FallbackUsed ==
  /\ ProcessedMaskResult
  /\ AcceptedIds(RequestPred.segmentation_mask, RequestPred.class_map) = {}
  /\ output.detected_classes # <<>>

\* C5: a result produced by the fallback path carries an explicit mode flag,
\* a key that a result computed from the mask does not have.
C5_FallbackHasModeFlag ==
  FallbackUsed => DOMAIN output \ MaskResultKeys # {}

\* C6: no entry of detected_classes and no key of class_areas is a reserved
\* label, in normal and in fallback mode.
C6_NoReservedLabelReported ==
  op = "process_prediction_result" =>
    /\ \A i \in DOMAIN output.detected_classes :
         ~ReservedLabel(output.detected_classes[i])
    /\ "class_areas" \in DOMAIN output =>
         \A name \in DOMAIN output.class_areas : ~ReservedLabel(name)

\* a mask in which a reserved label and a food label both occur
C6_Witness ==
  /\ ProcessedMaskResult
  /\ DOMAIN output.class_areas # {}
  /\ \E i \in DOMAIN RequestPred.segmentation_mask.data :
       LET key == ToStr(RequestPred.segmentation_mask.data[i])
       IN  /\ key \in DOMAIN RequestPred.class_map
           /\ ReservedLabel(RequestPred.class_map[key])

\* C7: total_food_area.pixels is the sum of the pixel counts of the returned
\* class_areas entries and total_food_area.percentage is 100 * sum /
\* total_pixels rounded to 2 decimals.
C7_TotalIsSumOfEntries ==
  ProcessedMaskResult =>
    LET sum == SumPixels(output.class_areas)
    IN  /\ output.total_food_area.pixels = sum
        /\ output.total_food_area.percentage =
             RoundHalfEven(10000 * sum, output.mask_info.total_pixels)

\* estimate_weight_from_area ran with a usable total pixel count
EstimatedFromArea ==
  /\ op = "estimate_weight_from_area"
  /\ "calibration_info" \in DOMAIN output

\* p * 400 / T for the food name of the running estimate_weight_from_area
ClaimedAreaCm2(name) ==
  RNorm(<<input.class_areas[name].pixels * 400, input.mask_info.total_pixels>>)

\* /weight-estimation answered with its list of estimates
WeightsEstimated ==
  /\ op = "weight_estimation"
  /\ http_status = 200

\* the profile of the i-th food of the request, {} when it has none
ProfileOf(i) ==
  DictGet(physical_properties, Lower(input.foods[i].name), EmptyDict)

HasProfile(i) == Lower(input.foods[i].name) \in DOMAIN physical_properties

\* C8: a food with pixel count p in a frame of T > 0 pixels is given
\* area_cm2 = p * 400 / T, and a rectangular food weighs area_cm2 *
\* thickness_cm * density of its profile (in estimate_weight_from_area every
\* food is 2 cm thick with the density of food_densities).
C8_AreaAndRectangularWeight ==
  /\ EstimatedFromArea =>
       \A name \in DOMAIN input.class_areas :
         LET e == output.weight_estimates[name]
         IN  /\ e.area_cm2 = Round(ClaimedAreaCm2(name), 2)
             /\ name \in DOMAIN food_densities =>
                  e.estimated_weight_grams =
                    Round(RMul(ClaimedAreaCm2(name),
                               RMul(<<2, 1>>, food_densities[name])), 1)
  /\ WeightsEstimated =>
       \A i \in DOMAIN input.foods :
         (/\ HasProfile(i)
          /\ {"shape", "thickness_cm", "density"} \subseteq DOMAIN ProfileOf(i)
          /\ ProfileOf(i)["shape"] = "rectangular") =>
            LET e == output.weight_estimations[i]
                volume == RMul(input.foods[i].area_cm2, ProfileOf(i)["thickness_cm"])
            IN  /\ e.calculation_details.volume_cm3 = Round(volume, 2)
                /\ e.estimated_weight_grams =
                     Round(RMul(volume, ProfileOf(i)["density"]), 1)

\* bhat on a quarter of a 100 x 100 frame: 100 cm2, 2 cm, 0.8 g/cm3, 160.0 g
C8_Witness ==
  /\ EstimatedFromArea
  /\ S_bhat \in DOMAIN input.class_areas
  /\ input.class_areas[S_bhat].pixels = 2500
  /\ input.mask_info.total_pixels = 10000
  /\ output.weight_estimates[S_bhat].area_cm2 = 10000
  /\ output.weight_estimates[S_bhat].estimated_weight_grams = 1600

\* the order of the confidence markers
ConfidenceRank(c) ==
  CASE c = "low" -> 0 [] c = "estimated" -> 1 [] c = "high" -> 2

\* C9: a food without a physical profile is estimated by every weight
\* estimator from the default profile (weight = area_cm2 * 2.0) and marked
\* with a lower confidence than a known food.  For /weight-estimation, which
\* reports no confidence key, the "fallback_estimation" method counts as the
\* marker.
C9_UnknownFoodUsesDefaultProfile ==
  /\ EstimatedFromArea =>
       \A name \in DOMAIN input.class_areas :
         name \notin DOMAIN food_densities =>
           LET e == output.weight_estimates[name]
           IN  /\ e.estimated_weight_grams =
                    Round(RMul(ClaimedAreaCm2(name), <<2, 1>>), 1)
               /\ ConfidenceRank(e.confidence) < ConfidenceRank("estimated")
  /\ WeightsEstimated =>
       \A i \in DOMAIN input.foods :
         ~HasProfile(i) =>
           LET e == output.weight_estimations[i]
           IN  /\ e.estimated_weight_grams =
                    Round(RMul(input.foods[i].area_cm2, <<2, 1>>), 1)
               /\ "method" \in DOMAIN e.calculation_details
               /\ e.calculation_details["method"] = "fallback_estimation"
  /\ (/\ op = "db_estimate_weight"
      /\ ~DictTruthy(GetDensityInfo(density_data, input.food_name))) =>
       /\ REq(output.weight, RMul(input.detected_area_cm2, <<2, 1>>))
       /\ ConfidenceRank(output.details.confidence) < ConfidenceRank("high")

\* C10: the volume of an irregular food is area_cm2 * thickness_cm * the
\* shape_factor of its profile; for a rectangular food no shape factor is
\* applied.
C10_ShapeFactorOnlyForIrregular ==
  /\ WeightsEstimated =>
       \A i \in DOMAIN input.foods :
         (HasProfile(i) /\ "shape" \in DOMAIN ProfileOf(i)) =>
           LET props == ProfileOf(i)
               flat == RMul(input.foods[i].area_cm2,
                            DictGet(props, "thickness_cm", <<2, 1>>))
               volume_cm3 == output.weight_estimations[i].calculation_details.volume_cm3
           IN  /\ (props["shape"] = "irregular" /\ "shape_factor" \in DOMAIN props) =>
                    volume_cm3 = Round(RMul(flat, props["shape_factor"]), 2)
               /\ props["shape"] = "rectangular" => volume_cm3 = Round(flat, 2)
  /\ (/\ op = "db_estimate_weight"
      /\ DictTruthy(GetDensityInfo(density_data, input.food_name))) =>
       LET info == GetDensityInfo(density_data, input.food_name)
           flat == RMul(input.detected_area_cm2,
                        DictGet(info, "avg_thickness_cm", <<2, 1>>))
       IN  /\ (info["shape"] = "irregular" /\ "shape_factor" \in DOMAIN info) =>
                REq(output.details.volume_cm3, RMul(flat, info["shape_factor"]))
           /\ info["shape"] = "rectangular" =>
                REq(output.details.volume_cm3, flat)

\* the weight /weight-estimation reports for the i-th food of the request
\* when its area is doubled, the food and the tables unchanged
DoubledEstimate(i) ==
  EnhancedEstimate(physical_properties, nutrition_database, glycemic_index,
                   [input.foods[i] EXCEPT
                      !.area_cm2 = RMul(<<2, 1>>, input.foods[i].area_cm2)])
    .estimated_weight_grams

\* the weight estimate_weight_from_area reports for a food when its pixel
\* count is doubled, the frame unchanged
DoubledAreaEstimate(name) ==
  EstimateWeightFromArea(
    [input.class_areas EXCEPT
       ![name] = AreaEntry(2 * input.class_areas[name].pixels,
                           input.mask_info.total_pixels)],
    input.mask_info).weight_estimates[name].estimated_weight_grams

\* the i-th food of a /weight-estimation request has a rectangular or
\* irregular profile (the default shape is rectangular)
FlatShape(i) ==
  /\ HasProfile(i)
  /\ DictGet(ProfileOf(i), "shape", "rectangular") \in {"rectangular", "irregular"}

\* C11 (as stated): for a fixed food of rectangular or irregular shape the
\* estimated_weight_grams reported for area 2a is exactly twice the one
\* reported for area a (weights in tenths of a gram).
C11_WeightExactlyDoubles ==
  /\ EstimatedFromArea =>
       \A name \in DOMAIN input.class_areas :
         DoubledAreaEstimate(name) =
           2 * output.weight_estimates[name].estimated_weight_grams
  /\ WeightsEstimated =>
       \A i \in DOMAIN input.foods :
         FlatShape(i) =>
           DoubledEstimate(i) = 2 * output.weight_estimations[i].estimated_weight_grams

\* C11 (amended): the reported weight is rounded to one decimal, so the
\* weight reported for area 2a is within 0.1 g of twice the weight reported
\* for area a.
C11_WeightDoublesWithinRounding ==
  /\ EstimatedFromArea =>
       \A name \in DOMAIN input.class_areas :
         Abs(DoubledAreaEstimate(name)
               - 2 * output.weight_estimates[name].estimated_weight_grams) <= 1
  /\ WeightsEstimated =>
       \A i \in DOMAIN input.foods :
         FlatShape(i) =>
           Abs(DoubledEstimate(i)
                 - 2 * output.weight_estimations[i].estimated_weight_grams) <= 1

\* an irregular food of 50 cm2, 1.5 cm thick, 0.8 g/cm3: 48.0 g, and 96.0 g
\* for 100 cm2
C11_Witness ==
  /\ WeightsEstimated
  /\ Len(input.foods) = 1
  /\ FlatShape(1)
  /\ DictGet(ProfileOf(1), "shape", "rectangular") = "irregular"
  /\ input.foods[1].area_cm2 = <<50, 1>>
  /\ output.weight_estimations[1].estimated_weight_grams = 480
  /\ DoubledEstimate(1) = 960

\* C12: when mask_info.total_pixels is zero or missing,
\* estimate_weight_from_area returns empty weight_estimates together with
\* its calibration_info and reports no error.
C12_NoCalibrationGivesEmptyEstimates ==
  (/\ op = "estimate_weight_from_area"
   /\ TotalPixelsOf(input.mask_info) = 0) =>
     /\ output.weight_estimates = EmptyDict
     /\ "calibration_info" \in DOMAIN output
     /\ "error" \notin DOMAIN output

\* /diabetes-analysis answered with its analysis
Analysed ==
  /\ op = "diabetes_analysis"
  /\ http_status = 200

\* the lower-cased name of the i-th food of the analysed meal
MealName(i) == Lower(DictGet(input.detected_foods[i], "name", S_empty))

\* the weight of the i-th food, 100 g when the request gives none
MealWeight(i) == DictGet(input.detected_foods[i], "weight", Hundred)

\* the positions of the foods that have a glycemic record
WithRecord == { i \in DOMAIN input.detected_foods : MealName(i) \in DOMAIN glycemic_index }

\* the sum of gi_value over a set of positions of the meal
RECURSIVE SumGi(_)
SumGi(positions) ==
  IF positions = {} THEN Zero
  ELSE LET i == CHOOSE j \in positions : TRUE
       IN  RAdd(glycemic_index[MealName(i)]["gi_value"], SumGi(positions \ {i}))

\* C13: average_gi is the arithmetic mean of gi_value over exactly the
\* detected foods that have a glycemic record (to one decimal, in tenths);
\* foods without a record enter neither the sum nor the count.
C13_AverageOverFoodsWithRecord ==
  (Analysed /\ WithRecord # {}) =>
    output.analysis.average_gi =
      Round(RDiv(SumGi(WithRecord), <<Cardinality(WithRecord), 1>>), 1)

\* C14: the risk level is a function of the reported average_gi and
\* total_glycemic_load only (both in tenths): high when average_gi >= 70 or
\* total_glycemic_load >= 20, otherwise medium when average_gi >= 56 or
\* total_glycemic_load >= 11, otherwise low.
C14_RiskLevelByThresholds ==
  Analysed =>
    LET a == output.analysis
    IN  /\ (a.average_gi >= 700 \/ a.total_glycemic_load >= 200) <=>
              a.risk_level = "high"
        /\ (/\ a.average_gi < 700 /\ a.total_glycemic_load < 200
            /\ (a.average_gi >= 560 \/ a.total_glycemic_load >= 110)) <=>
              a.risk_level = "medium"
        /\ (a.average_gi < 560 /\ a.total_glycemic_load < 110) <=>
              a.risk_level = "low"

\* a meal whose average_gi is exactly 70.0 with no glycemic load: high
C14_Witness ==
  /\ Analysed
  /\ output.analysis.average_gi = 700
  /\ output.analysis.total_glycemic_load = 0
  /\ output.analysis.risk_level = "high"

\* calculate_meal_risk_score returned its result
Scored ==
  /\ op = "calculate_meal_risk_score"
  /\ "raised" \notin DOMAIN output

\* the lower-cased class of the i-th food handed to calculate_meal_risk_score
ScoredName(i) == Lower(DictGet(input.detected_foods[i], "class", S_empty))

\* the analysis the same request gets when the food has a nutrition entry
\* whose values are all zero: its glycemic load is really zero
AnalysisWithZeroEntry(food_name) ==
  DiabetesAnalysis(
    nutrition_database
      @@ (food_name :> [nutrition_per_100g |-> [calories |-> Zero, carbs |-> Zero]]),
    glycemic_index, food_alternatives, input).body

ScoreWithZeroEntry(food_name) ==
  CalculateMealRiskScore(
    [foods |->
       DictGet(nutrition_data, "foods", EmptyDict)
         @@ (food_name :> [nutrition_per_100g |->
                             [calories |-> Zero, protein_g |-> Zero,
                              carbs_g |-> Zero]])],
    gi_data, input.detected_foods)

\* C15: a food with a glycemic record and no nutrition entry is reported as
\* insufficient data: the output of diabetes_analysis and of
\* calculate_meal_risk_score differs from the output for the same meal in
\* which that food has a nutrition entry with zero carbohydrates.
C15_MissingNutritionIsNotZeroRisk ==
  /\ Analysed =>
       \A i \in WithRecord :
         MealName(i) \notin DOMAIN nutrition_database =>
           output # AnalysisWithZeroEntry(MealName(i))
  /\ Scored =>
       \A i \in DOMAIN input.detected_foods :
         (/\ DictTruthy(GetGiInfo(gi_data, ScoredName(i)))
          /\ ~DictTruthy(GetNutritionInfo(nutrition_data, ScoredName(i)))) =>
           output # ScoreWithZeroEntry(ScoredName(i))

\* the per-100g carbohydrates of a food, 0 when the nutrition table has none
CarbsPer100g(food_name) ==
  DictGet(DictGet(DictGet(nutrition_database, food_name, EmptyDict),
                  "nutrition_per_100g", EmptyDict),
          "carbs", Zero)

\* gl = gi_value x scaled carbs / 100 of the i-th food of the meal
ClaimedGl(i) ==
  RDiv(RMul(glycemic_index[MealName(i)]["gi_value"],
            RDiv(RMul(CarbsPer100g(MealName(i)), MealWeight(i)), Hundred)),
       Hundred)

\* the i-th food is high risk by the rule of the claim
ClaimedHighRisk(i) ==
  /\ i \in WithRecord
  /\ \/ glycemic_index[MealName(i)]["gi_category"] = "high"
     \/ RGt(ClaimedGl(i), <<20, 1>>)

\* the names of the foods among the first n that are high risk by the rule,
\* in the order of the meal
RECURSIVE ClaimedHighRiskNames(_)
ClaimedHighRiskNames(n) ==
  IF n = 0 THEN <<>>
  ELSE IF ClaimedHighRisk(n)
    THEN Append(ClaimedHighRiskNames(n - 1), <<MealName(n), Round(ClaimedGl(n), 1)>>)
    ELSE ClaimedHighRiskNames(n - 1)

\* C16: high_risk_foods lists, in the order of the meal, exactly the foods
\* with a glycemic record whose gi_category is "high" or whose glycemic load
\* gi_value x scaled carbs / 100 is strictly greater than 20.
C16_HighRiskFoodsByRule ==
  Analysed =>
    [k \in DOMAIN output.analysis.high_risk_foods |->
       <<output.analysis.high_risk_foods[k].name,
         output.analysis.high_risk_foods[k].gl>>]
      = ClaimedHighRiskNames(Len(input.detected_foods))

\* daal (low category) with a load of exactly 20 next to daal with a load
\* of 21: only the second is high risk
C16_Witness ==
  /\ Analysed
  /\ Len(input.detected_foods) = 2
  /\ WithRecord = {1, 2}
  /\ ClaimedGl(1) = <<20, 1>>
  /\ glycemic_index[MealName(1)]["gi_category"] # "high"
  /\ Len(output.analysis.high_risk_foods) = 1
  /\ output.analysis.high_risk_foods[1].gl = 210

\* the names listed in high_risk_foods
HighRiskNames ==
  { output.analysis.high_risk_foods[k].name : k \in DOMAIN output.analysis.high_risk_foods }

\* the alternatives table, {} when the document has none
AlternativesTable == DictGet(food_alternatives, "alternatives", EmptyDict)

\* C17: the keys of alternatives are exactly the names of the high-risk
\* foods that have an entry in the alternatives table, each with that entry;
\* a high-risk food without an entry yields no key and the request succeeds.
C17_AlternativesOnlyForHighRisk ==
  (op = "diabetes_analysis" /\ input.has_foods) =>
    /\ http_status = 200
    /\ DOMAIN output.analysis.alternatives = HighRiskNames \cap DOMAIN AlternativesTable
    /\ \A n \in DOMAIN output.analysis.alternatives :
         output.analysis.alternatives[n] = AlternativesTable[n]

\* bhat and roti are high risk, only bhat has an entry; daal has an entry
\* and is not in this meal's high-risk list
C17_Witness ==
  /\ Analysed
  /\ HighRiskNames = {S_bhat, FoodNames.roti}
  /\ FoodNames.daal \in DOMAIN AlternativesTable
  /\ FoodNames.roti \notin DOMAIN AlternativesTable
  /\ DOMAIN output.analysis.alternatives = {S_bhat}

\* C18: for an empty detected_foods list, and for a list in which no food
\* has a glycemic record, diabetes_analysis answers with average_gi 0, total
\* glycemic load 0 and risk level low (no division by zero).
C18_NoRecordGivesZeroAndLow ==
  (op = "diabetes_analysis" /\ input.has_foods /\ WithRecord = {}) =>
    /\ http_status = 200
    /\ output.analysis.average_gi = 0
    /\ output.analysis.total_glycemic_load = 0
    /\ output.analysis.risk_level = "low"
    /\ output.analysis.high_risk_foods = <<>>

\* a meal of two foods, neither with a glycemic record, while the table
\* holds records for other foods
C18_Witness ==
  /\ Analysed
  /\ Len(input.detected_foods) = 2
  /\ WithRecord = {}
  /\ glycemic_index # EmptyDict
  /\ output.analysis.average_gi = 0
  /\ output.analysis.risk_level = "low"

\* the per-100g value of a field of the food of the running scaler call, 0
\* when the entry does not hold it
Per100g(field) ==
  DictGet(DictGet(nutrition_database[input.food_name], "nutrition_per_100g", EmptyDict),
          field, Zero)

\* per-100g value x w / 100 rounded to one decimal (in tenths)
ScaledField(field) ==
  Round(RDiv(RMul(Per100g(field), input.weight_grams), Hundred), 1)

C20_UnknownFoodGivesEmptyRecord ==
  /\ (/\ op = "get_nutrition_for_weight"
      /\ input.food_name \notin DOMAIN nutrition_database) =>
        output = EmptyDict
  /\ (/\ op = "get_carbohydrates_for_weight"
      /\ input.food_name \notin DOMAIN nutrition_database) =>
        output = Zero

\* pizza, which a loaded table does not hold, at 125 g
C20_Witness ==
  /\ op = "get_nutrition_for_weight"
  /\ input = [food_name |-> S_pizza, weight_grams |-> <<125, 1>>]
  /\ nutrition_database # EmptyDict
  /\ output = EmptyDict

\* /generate-mask answered with an overlay computed from a class map
Overlaid ==
  /\ op = "generate_mask"
  /\ http_status = 200
  /\ input.class_map_kind = "dict"

\* the mask id under each pixel of the answered image
OverlayIds ==
  ResizeNearest(MaskArray(input.segmentation_mask),
                input.segmentation_mask.width, input.segmentation_mask.height,
                input.original_image.width, input.original_image.height)

\* the colour the palette gives a label: that of the palette label equal to
\* it, surrounding whitespace and letter case ignored, else the default gray
PaletteColor(label) ==
  IF \E k \in DOMAIN colors : Lower(k) = Lower(Strip(label))
    THEN colors[CHOOSE k \in DOMAIN colors : Lower(k) = Lower(Strip(label))]
    ELSE default_color

\* C21: every pixel whose id is not 0 and maps to a non-reserved label is
\* painted with the palette colour of that label when the palette has the
\* label (each of its 16 labels) and with the default gray otherwise; pixels
\* of id 0 and of reserved labels stay transparent.
C21_PaintedWithPaletteColour ==
  Overlaid =>
    \A i \in DOMAIN output.mask_overlay.overlay :
      LET key == ToStr(OverlayIds[i])
      IN  output.mask_overlay.overlay[i] =
            IF \/ OverlayIds[i] = 0
               \/ key \notin DOMAIN input.class_map
               \/ ReservedLabel(input.class_map[key])
              THEN Transparent
              ELSE PaletteColor(input.class_map[key])

\* a step of the overlay pipeline failed: the mask or the original image
\* does not decode, or compositing raises
OverlayStepFailed ==
  /\ op = "generate_mask"
  /\ input.fields = {"segmentation_mask", "class_map", "original_image"}
  /\ \/ ~Decodes(input.segmentation_mask)
     \/ input.original_image.kind \in {"bad_base64", "undecodable"}
     \/ /\ Decodes(input.segmentation_mask)
        /\ input.original_image.kind = "image"
        /\ input.class_map_kind # "dict"
        /\ \E i \in DOMAIN input.segmentation_mask.data :
             input.segmentation_mask.data[i] # 0

CompositingFailed ==
  /\ op = "generate_mask"
  /\ input.fields = {"segmentation_mask", "class_map", "original_image"}
  /\ Decodes(input.segmentation_mask)
  /\ input.original_image.kind = "image"
  /\ input.class_map_kind # "dict"
  /\ \E i \in DOMAIN input.segmentation_mask.data :
       input.segmentation_mask.data[i] # 0

C23_HelpersReturnAResult ==
  /\ op = "process_prediction_result" =>
       /\ "raised" \notin DOMAIN output
       /\ {"detected_classes", "total_classes"} \subseteq DOMAIN output
       /\ output.total_classes = Len(output.detected_classes)
  /\ op = "estimate_weight_from_area" =>
       /\ "raised" \notin DOMAIN output
       /\ "weight_estimates" \in DOMAIN output

\* estimate_weight_from_area was given areas and a mask_info of zero pixels,
\* and its except clause answered
C23_Witness ==
  /\ op = "estimate_weight_from_area"
  /\ DOMAIN input.class_areas # {}
  /\ DOMAIN input.mask_info # {}
  /\ input.mask_info.total_pixels = 0
  /\ "error" \in DOMAIN output

\* C25: the density lookup of estimate_weight_from_area ignores letter case:
\* a label that differs from a key of the density table only in case (such as
\* "Selroti" for "selroti") gets that key's density, not the average density.
C25_DensityLookupIgnoresCase ==
  (op = "estimate_weight_from_area" /\ "calibration_info" \in DOMAIN output) =>
    \A class_name \in DOMAIN output.weight_estimates :
      Lower(class_name) \in DOMAIN food_densities =>
        /\ output.weight_estimates[class_name].density_used =
             food_densities[Lower(class_name)]
        /\ output.weight_estimates[class_name].confidence = "estimated"

\* C26: whenever a /predict or /direct-predict response contains
\* weight_estimates, its food names are exactly the keys of class_areas in
\* the same response.
C26_WeightEstimatesForEveryArea ==
  (op \in {"predict", "direct_predict"} /\ "weight_estimates" \in DOMAIN output) =>
    /\ "class_areas" \in DOMAIN output
    /\ DOMAIN output.weight_estimates = DOMAIN output.class_areas

\* /predict answered with estimates for two foods, one of them not in the
\* density table
C26_Witness ==
  /\ op = "predict"
  /\ http_status = 200
  /\ "weight_estimates" \in DOMAIN output
  /\ Cardinality(DOMAIN output.weight_estimates) = 2
  /\ DOMAIN output.weight_estimates \ DOMAIN food_densities # {}

\* the fields the two detection endpoints compute from a segmentation result
AreaFields == {"detected_classes", "class_areas", "total_food_area", "mask_info"}

\* C27: for the same segmentation result, process_prediction_result (used by
\* /predict) and the inline processing of /direct-predict give identical
\* detected_classes, class_areas, total_food_area and mask_info: in normal
\* mode, in fallback mode (repeated labels included) and with an absent or
\* undecodable mask.
C27_SameFieldsOnBothEndpoints ==
  (op = "direct_predict" /\ input.image = "ok" /\ input.upstream = "ok") =>
    LET result == ProcessPredictionResult(
                    RootPrediction(input.result.segmentation_mask,
                                   input.result.class_map))
    IN  \A field \in AreaFields :
          /\ field \in DOMAIN result
          /\ field \in DOMAIN output
          /\ result[field] = output[field]

\* C29: every temporary image file /predict creates is deleted before the
\* response is returned, on success and on every failure path.
C29_TempFileDeletedBeforeResponse ==
  op = "predict" => temp_file # "left"

\* the sum, over the foods that have a nutrition entry, of the field per
\* 100 g scaled to the food's weight
RECURSIVE SumNutrient(_, _)
SumNutrient(foods, field) ==
  IF foods = <<>> THEN Zero
  ELSE
    LET nutrition == GetNutritionInfo(nutrition_data,
                                      DictGet(Head(foods), "class", S_empty))
        per_100g == DictGet(nutrition, "nutrition_per_100g", EmptyDict)
        weight_g == DictGet(Head(foods), "weight", Zero)
    IN  RAdd(RMul(DictGet(per_100g, field, Zero), RDiv(weight_g, Hundred)),
             SumNutrient(Tail(foods), field))

\* C28: in calculate_meal_risk_score the totals of calories, carbohydrates,
\* fiber and protein are the sums over every detected food that has a
\* nutrition entry, whether or not the food has a glycemic record.
C28_TotalsOverFoodsWithNutrition ==
  (op = "calculate_meal_risk_score" /\ "raised" \notin DOMAIN output) =>
    /\ output.total_calories = Round(SumNutrient(input.detected_foods, "calories"), 1)
    /\ output.total_carbs_g = Round(SumNutrient(input.detected_foods, "carbs_g"), 1)
    /\ output.total_fiber_g = Round(SumNutrient(input.detected_foods, "fiber_g"), 1)
    /\ output.total_protein_g = Round(SumNutrient(input.detected_foods, "protein_g"), 1)

\* process_prediction_result computed its result from the mask: some id of
\* the mask array maps to a food label, so the fallback was not taken
MaskComputed ==
  /\ ProcessedMaskResult
  /\ AcceptedIds(RequestPred.segmentation_mask, RequestPred.class_map) # {}

\* the label is mapped from a class id that occurs in the mask array
OccursInMask(name) ==
  \E i \in DOMAIN RequestPred.segmentation_mask.data :
    LET key == ToStr(RequestPred.segmentation_mask.data[i])
    IN  /\ key \in DOMAIN RequestPred.class_map
        /\ Strip(RequestPred.class_map[key]) = name

AloneResponse(s) ==
  IF requests[s].handler = "weight_estimation"
    THEN EnhancedWeightEstimation(physical_properties, nutrition_database,
                                  glycemic_index, requests[s].req)
    ELSE DiabetesAnalysis(nutrition_database, glycemic_index, food_alternatives,
                          requests[s].req)

\* C24: under any interleaving of concurrent requests no handler writes the
\* reference tables after start-up, and the result of each request equals the
\* result of running that request alone.
C24_ConcurrentRequestsAreIndependent ==
  /\ [][tables' = tables]_vars
  /\ [](\A s \in 1 .. MaxRequests :
          requests[s].state = "answered" =>
            requests[s].response = AloneResponse(s))

\* a /weight-estimation request is answered while a /diabetes-analysis
\* request is in the middle of its loop
C24_Witness ==
  \E s, t \in 1 .. MaxRequests :
    /\ requests[s].state = "answered"
    /\ requests[s].handler = "weight_estimation"
    /\ Len(requests[s].req.foods) = 2
    /\ requests[t].state = "running"
    /\ requests[t].handler = "diabetes_analysis"
    /\ requests[t].done = 1
    /\ DOMAIN physical_properties # {}

====
